---------------------------- MODULE Spec2Model ----------------------------
(***************************************************************************)
(* Verification model of the computational core of the market correlation  *)
(* analysis tool (src/correlation_analysis/logic.py, config.py, data.py    *)
(* and the Strong Correlations tab of gui.py).                             *)
(*                                                                         *)
(* Numbers.  A Python float is modelled as a record [nan, v, e]: nan is    *)
(* TRUE for not-a-number; otherwise the value is v ten-thousandths (0.80   *)
(* is 8000, 0.7999 is 7999) plus e times a step smaller than any distance  *)
(* between two grid points, e in {-1, 0, 1}: [v |-> 8000, e |-> -1] is the *)
(* float just below 0.80.  Values are ordered by v, then by e.  Every      *)
(* comparison with a not-a-number operand is FALSE, as in IEEE 754.        *)
(*                                                                         *)
(* Text.  An asset label or ticker prefix is a sequence of one-character   *)
(* strings, so that str.startswith and string concatenation are computed   *)
(* and not assumed.  Sector names and classifier labels are never taken    *)
(* apart by the code and stay plain strings.                               *)
(*                                                                         *)
(* Correlations computed from prices (data.py) are held exactly, as a sign  *)
(* and a squared value in lowest terms; returns are whole numbers of a     *)
(* fixed unit.                                                             *)
(*                                                                         *)
(* Positions are 1-based here and 0-based in the source.                   *)
(***************************************************************************)
EXTENDS Integers, Sequences, FiniteSets, TLC

VARIABLES
    pc,           \* where the run is: "call"/"done", or "start"/"mapped"/"grouped"
    val,          \* classify_correlation: the argument
    cls_out,      \* classify_correlation: the returned (label, tag), or NoResult
    sectors,      \* the taxonomy read from config.SECTORS, in iteration order
    assets,       \* the list of asset labels
    cat_map,      \* the dict returned by build_category_map
    corr_matrix,  \* the correlation matrix handed to group_correlations
    grouped,      \* the dict returned by group_correlations
    raised,       \* the exception the call raised, "" for none
    tree,         \* the rows of the Strong Correlations tree, section by section
    data,         \* the price table handed to compute_correlation_matrices
    corr_short,   \* the short-term matrix it returned
    corr_medium,  \* the medium-term matrix it returned
    caller,       \* a caller of logic.py: its copy of the arguments, the results so far
    downloaded,   \* main: what yf.download gave, a table or an exception
    exits,        \* main: the statuses sys.exit was called with
    run_app_calls, \* main: the argument pairs run_app was called with
    diff_matrix,  \* CorrelationApp: the difference matrix of the comparison tab
    views         \* CorrelationApp: the state of the three heatmap views

vars == <<pc, val, cls_out, sectors, assets, cat_map, corr_matrix, grouped, raised,
          tree, data, corr_short, corr_medium, caller, downloaded, exits,
          run_app_calls, diff_matrix, views>>

\* What the pipeline of the Strong Correlations tab leaves alone
engine_vars == <<data, corr_short, corr_medium>>

\* A price table: column labels, number of rows, one price series per column
Table(columns, nrows, series) == [columns |-> columns, nrows |-> nrows, series |-> series]

NoTable == Table(<< >>, 0, << >>)

\* A labelled matrix: labels of rows and columns, rows of cells
Matrix(index, columns, cells) == [index |-> index, columns |-> columns, cells |-> cells]

NoMatrix == Matrix(<< >>, << >>, << >>)

\* What the functions of logic.py and data.py and the filling of the tree
\* leave alone
rest_vars == <<caller, downloaded, exits, run_app_calls, diff_matrix, views>>

\* What is left alone by everything before the window is built
gui_vars == <<diff_matrix, views>>

\* Python's None, where a table or a matrix may stand
None == [none |-> TRUE]

\* Nothing downloaded, no exit, no window opened
NoProcess ==
    /\ downloaded = None
    /\ exits = << >>
    /\ run_app_calls = << >>
    /\ diff_matrix = NoMatrix
    /\ views = << >>

\* A caller that holds the arguments it passes and the results it got back
Caller(labels, matrix, results) ==
    [assets |-> labels, corr_matrix |-> matrix, results |-> results]

NoCaller == Caller(<< >>, << >>, << >>)

\* No table computed on, no matrix returned, no row inserted
Idle ==
    /\ caller = NoCaller
    /\ NoProcess
    /\ tree = << >>
    /\ data = NoTable
    /\ corr_short = NoMatrix
    /\ corr_medium = NoMatrix

\* ------------------------------------------------------------------------
\* Floats
\* ------------------------------------------------------------------------

Float(x) == [nan |-> FALSE, v |-> x, e |-> 0]

\* The float next to grid point x: just below it (d = -1) or just above (d = 1)
Near(x, d) == [nan |-> FALSE, v |-> x, e |-> d]

NaN == [nan |-> TRUE, v |-> 0, e |-> 0]

\* a < b, a <= b, a >= b, a > b on floats: FALSE when either side is NaN
FLt(a, b) == ~a.nan /\ ~b.nan /\ (a.v < b.v \/ (a.v = b.v /\ a.e < b.e))

FLe(a, b) == ~a.nan /\ ~b.nan /\ (a.v < b.v \/ (a.v = b.v /\ a.e <= b.e))

FGe(a, b) == FLe(b, a)

FGt(a, b) == FLt(b, a)

\* ------------------------------------------------------------------------
\* config.py: the classification thresholds, in ten-thousandths
\* ------------------------------------------------------------------------

TWINS_THRESHOLD == 8000

\* a moderate threshold configured above the twins threshold
MODERATE_POS_THRESHOLD_above_twins == TWINS_THRESHOLD + 1000

MODERATE_POS_THRESHOLD == 5000

INDEPENDENT_LOW == -2000

INDEPENDENT_HIGH == 2000

WEAK_NEG_THRESHOLD == -5000

MIRROR_THRESHOLD == -8000

\* ------------------------------------------------------------------------
\* logic.py: classify_correlation
\* ------------------------------------------------------------------------

Result(label, tag) == [label |-> label, tag |-> tag]

NoResult == Result("", "")

\* A ladder whose third rung excludes its upper end (val < INDEPENDENT_HIGH).
classify_correlation_open_high(x) ==
    IF FGe(x, Float(TWINS_THRESHOLD)) THEN Result("Twins (High Risk)", "pos_strong")
    ELSE IF FGe(x, Float(MODERATE_POS_THRESHOLD)) THEN Result("Moderate Positive", "pos_mod")
    ELSE IF FLe(Float(INDEPENDENT_LOW), x) /\ FLt(x, Float(INDEPENDENT_HIGH))
        THEN Result("Independent (Diversify)", "null")
    ELSE IF FLt(Float(WEAK_NEG_THRESHOLD), x) /\ FLt(x, Float(INDEPENDENT_LOW))
        THEN Result("Weak Inverse", "neg_weak")
    ELSE IF FLt(Float(MIRROR_THRESHOLD), x) /\ FLe(x, Float(WEAK_NEG_THRESHOLD))
        THEN Result("Moderate Inverse", "neg_mod")
    ELSE IF FLe(x, Float(MIRROR_THRESHOLD)) THEN Result("Mirror (Hedging)", "neg_strong")
    ELSE Result("Weak Positive / Noise", "weak")

\* A ladder without the final return: the caller's defaults come back, as in
\* the single-file program's tipo = "Moderate", tag = "normal".
classify_correlation_no_else(x) ==
    IF FGe(x, Float(TWINS_THRESHOLD)) THEN Result("Twins (High Risk)", "pos_strong")
    ELSE IF FGe(x, Float(MODERATE_POS_THRESHOLD)) THEN Result("Moderate Positive", "pos_mod")
    ELSE IF FLe(Float(INDEPENDENT_LOW), x) /\ FLe(x, Float(INDEPENDENT_HIGH))
        THEN Result("Independent (Diversify)", "null")
    ELSE IF FLt(Float(WEAK_NEG_THRESHOLD), x) /\ FLt(x, Float(INDEPENDENT_LOW))
        THEN Result("Weak Inverse", "neg_weak")
    ELSE IF FLt(Float(MIRROR_THRESHOLD), x) /\ FLe(x, Float(WEAK_NEG_THRESHOLD))
        THEN Result("Moderate Inverse", "neg_mod")
    ELSE IF FLe(x, Float(MIRROR_THRESHOLD)) THEN Result("Mirror (Hedging)", "neg_strong")
    ELSE Result("Moderate", "normal")

\* A ladder whose outer rungs are closed at the ends of the theoretical range
\* (TWINS_THRESHOLD <= val <= 1, -1 <= val <= MIRROR_THRESHOLD).
classify_correlation_clamped(x) ==
    IF FGe(x, Float(TWINS_THRESHOLD)) /\ FLe(x, Float(10000))
        THEN Result("Twins (High Risk)", "pos_strong")
    ELSE IF FGe(x, Float(MODERATE_POS_THRESHOLD)) /\ FLt(x, Float(TWINS_THRESHOLD))
        THEN Result("Moderate Positive", "pos_mod")
    ELSE IF FLe(Float(INDEPENDENT_LOW), x) /\ FLe(x, Float(INDEPENDENT_HIGH))
        THEN Result("Independent (Diversify)", "null")
    ELSE IF FLt(Float(WEAK_NEG_THRESHOLD), x) /\ FLt(x, Float(INDEPENDENT_LOW))
        THEN Result("Weak Inverse", "neg_weak")
    ELSE IF FLt(Float(MIRROR_THRESHOLD), x) /\ FLe(x, Float(WEAK_NEG_THRESHOLD))
        THEN Result("Moderate Inverse", "neg_mod")
    ELSE IF FLe(x, Float(MIRROR_THRESHOLD)) /\ FGe(x, Float(-10000))
        THEN Result("Mirror (Hedging)", "neg_strong")
    ELSE Result("Weak Positive / Noise", "weak")

\* A ladder whose first rung is written as a negated comparison
\* (not val < TWINS_THRESHOLD), which not-a-number satisfies.
classify_correlation_negated(x) ==
    IF ~FLt(x, Float(TWINS_THRESHOLD)) THEN Result("Twins (High Risk)", "pos_strong")
    ELSE IF FGe(x, Float(MODERATE_POS_THRESHOLD)) THEN Result("Moderate Positive", "pos_mod")
    ELSE IF FLe(Float(INDEPENDENT_LOW), x) /\ FLe(x, Float(INDEPENDENT_HIGH))
        THEN Result("Independent (Diversify)", "null")
    ELSE IF FLt(Float(WEAK_NEG_THRESHOLD), x) /\ FLt(x, Float(INDEPENDENT_LOW))
        THEN Result("Weak Inverse", "neg_weak")
    ELSE IF FLt(Float(MIRROR_THRESHOLD), x) /\ FLe(x, Float(WEAK_NEG_THRESHOLD))
        THEN Result("Moderate Inverse", "neg_mod")
    ELSE IF FLe(x, Float(MIRROR_THRESHOLD)) THEN Result("Mirror (Hedging)", "neg_strong")
    ELSE Result("Weak Positive / Noise", "weak")

\* A ladder that tries the second rung before the first.
classify_correlation_second_first(x) ==
    IF FGe(x, Float(MODERATE_POS_THRESHOLD)) THEN Result("Moderate Positive", "pos_mod")
    ELSE IF FGe(x, Float(TWINS_THRESHOLD)) THEN Result("Twins (High Risk)", "pos_strong")
    ELSE IF FLe(Float(INDEPENDENT_LOW), x) /\ FLe(x, Float(INDEPENDENT_HIGH))
        THEN Result("Independent (Diversify)", "null")
    ELSE IF FLt(Float(WEAK_NEG_THRESHOLD), x) /\ FLt(x, Float(INDEPENDENT_LOW))
        THEN Result("Weak Inverse", "neg_weak")
    ELSE IF FLt(Float(MIRROR_THRESHOLD), x) /\ FLe(x, Float(WEAK_NEG_THRESHOLD))
        THEN Result("Moderate Inverse", "neg_mod")
    ELSE IF FLe(x, Float(MIRROR_THRESHOLD)) THEN Result("Mirror (Hedging)", "neg_strong")
    ELSE Result("Weak Positive / Noise", "weak")

\* logic.py 23-35: the ladder, top-down, first match returns
classify_correlation(x) ==
    IF FGe(x, Float(TWINS_THRESHOLD)) THEN Result("Twins (High Risk)", "pos_strong")
    ELSE IF FGe(x, Float(MODERATE_POS_THRESHOLD)) THEN Result("Moderate Positive", "pos_mod")
    ELSE IF FLe(Float(INDEPENDENT_LOW), x) /\ FLe(x, Float(INDEPENDENT_HIGH))
        THEN Result("Independent (Diversify)", "null")
    ELSE IF FLt(Float(WEAK_NEG_THRESHOLD), x) /\ FLt(x, Float(INDEPENDENT_LOW))
        THEN Result("Weak Inverse", "neg_weak")
    ELSE IF FLt(Float(MIRROR_THRESHOLD), x) /\ FLe(x, Float(WEAK_NEG_THRESHOLD))
        THEN Result("Moderate Inverse", "neg_mod")
    ELSE IF FLe(x, Float(MIRROR_THRESHOLD)) THEN Result("Mirror (Hedging)", "neg_strong")
    ELSE Result("Weak Positive / Noise", "weak")

\* ------------------------------------------------------------------------
\* Text
\* ------------------------------------------------------------------------

\* str.startswith: p is no longer than s and agrees with it character by character
StartsWith(s, p) == Len(p) <= Len(s) /\ \A k \in 1..Len(p) : s[k] = p[k]

\* config.py 41-77: asset labels used as inputs
LabelES == <<"E", "S", " ", "(", "S", "&", "P", " ", "5", "0", "0", ")">>

LabelNQ == <<"N", "Q", " ", "(", "N", "a", "s", "d", "a", "q", ")">>

LabelGC == <<"G", "C", " ", "(", "G", "o", "l", "d", ")">>

LabelBTC == <<"B", "T", "C">>

\* test_gui.py 88: a label no prefix matches
LabelUnknown == <<"U", "n", "k", "n", "o", "w", "n", " ", "A", "s", "s", "e", "t">>

\* a label that begins with the letters of a prefix, without the space
LabelESG == <<"E", "S", "G", " ", "(", "F", "u", "n", "d", ")">>

LabelYM == <<"Y", "M", " ", "(", "D", "o", "w", " ", "J", "o", "n", "e", "s", ")">>

LabelRTY == <<"R", "T", "Y", " ", "(", "R", "u", "s", "s", "e", "l", "l", ")">>

\* ------------------------------------------------------------------------
\* config.py: the sector taxonomy, in dict order
\* ------------------------------------------------------------------------

SECTORS ==
    << [name |-> "Stock Indices",
        tickers |-> <<<<"E", "S">>, <<"N", "Q">>, <<"Y", "M">>, <<"R", "T", "Y">>>>],
       [name |-> "Energies",
        tickers |-> <<<<"C", "L">>, <<"R", "B">>, <<"N", "G">>, <<"H", "O">>>>],
       [name |-> "Metals",
        tickers |-> <<<<"G", "C">>, <<"S", "I">>, <<"H", "G">>, <<"P", "L">>>>],
       [name |-> "Crypto",
        tickers |-> <<<<"B", "T", "C">>, <<"E", "T", "H">>>>],
       [name |-> "Currencies",
        tickers |-> <<<<"6", "B">>, <<"6", "J">>, <<"6", "E">>, <<"6", "S">>,
                      <<"6", "N">>, <<"6", "A">>, <<"6", "C">>>>],
       [name |-> "Bonds/Fixed Income",
        tickers |-> <<<<"Z", "N">>, <<"Z", "T">>>>],
       [name |-> "Agriculture (Grains)",
        tickers |-> <<<<"Z", "W">>, <<"Z", "S">>, <<"Z", "C">>, <<"Z", "M">>, <<"Z", "L">>>>],
       [name |-> "Livestock (Meats)",
        tickers |-> <<<<"L", "E">>, <<"H", "E">>>>] >>

\* a label list with a label that no prefix of the taxonomy matches
ASSETS_unconfigured == <<LabelES, LabelUnknown>>

\* config.py 41-77: the keys of ASSETS, in dict order
ASSETS ==
    <<<<"6", "B", " ", "(", "P", "o", "u", "n", "d", ")">>,
       <<"Z", "N", " ", "(", "1", "0", "Y", " ", "B", "o", "n", "d", ")">>,
       <<"6", "J", " ", "(", "Y", "e", "n", ")">>,
       <<"6", "E", " ", "(", "E", "u", "r", "o", ")">>,
       <<"6", "S", " ", "(", "S", "w", "i", "s", "s", " ", "F", "r", "a", "n", "c", ")">>,
       <<"6", "N", " ", "(", "N", "Z", "D", ")">>,
       <<"6", "A", " ", "(", "A", "U", "D", ")">>,
       <<"6", "C", " ", "(", "C", "A", "D", ")">>,
       <<"Z", "T", " ", "(", "2", "Y", " ", "B", "o", "n", "d", ")">>,
       <<"Z", "W", " ", "(", "W", "h", "e", "a", "t", ")">>,
       <<"Z", "S", " ", "(", "S", "o", "y", "b", "e", "a", "n", ")">>,
       <<"Z", "C", " ", "(", "C", "o", "r", "n", ")">>,
       <<"Z", "M", " ", "(", "S", "o", "y", " ", "M", "e", "a", "l", ")">>,
       <<"Z", "L", " ", "(", "S", "o", "y", " ", "O", "i", "l", ")">>,
       <<"L", "E", " ", "(", "L", "i", "v", "e", " ", "C", "a", "t", "t", "l", "e", ")">>,
       <<"H", "E", " ", "(", "L", "e", "a", "n", " ", "H", "o", "g", "s", ")">>,
       LabelBTC,
       <<"E", "T", "H">>,
       LabelGC,
       <<"S", "I", " ", "(", "S", "i", "l", "v", "e", "r", ")">>,
       <<"H", "G", " ", "(", "C", "o", "p", "p", "e", "r", ")">>,
       <<"P", "L", " ", "(", "P", "l", "a", "t", "i", "n", "u", "m", ")">>,
       <<"C", "L", " ", "(", "W", "T", "I", " ", "C", "r", "u", "d", "e", ")">>,
       <<"R", "B", " ", "(", "G", "a", "s", "o", "l", "i", "n", "e", ")">>,
       <<"N", "G", " ", "(", "N", "a", "t", " ", "G", "a", "s", ")">>,
       <<"H", "O", " ", "(", "H", "e", "a", "t", "i", "n", "g", " ", "O", "i", "l", ")">>,
       LabelES,
       LabelNQ,
       LabelYM,
       LabelRTY >>

\* ------------------------------------------------------------------------
\* logic.py: build_category_map
\* ------------------------------------------------------------------------

\* A dict is a function on its key set; the empty dict is the empty function.
EmptyDict == << >>

\* d[k] = v for every k of keys, when a key already present keeps its value
\* (dict.setdefault)
DictSetAll_first_wins(d, keys, v) == d @@ [k \in keys |-> v]

\* d[k] = v for every k of keys
DictSetAll(d, keys, v) == [k \in keys |-> v] @@ d

\* a match that leaves out the separating space: asset_full.startswith(ticker_key)
Matches_no_space(asset_full, ticker_key) ==
    StartsWith(asset_full, ticker_key) \/ asset_full = ticker_key

\* logic.py 44: asset_full.startswith(ticker_key + " ") or asset_full == ticker_key
Matches(asset_full, ticker_key) ==
    StartsWith(asset_full, ticker_key \o <<" ">>) \/ asset_full = ticker_key

\* logic.py 43-45: for asset_full in assets -- every label of the list that
\* matches the prefix is assigned the sector (the assignments of one pass
\* all write the same value, so their order within the pass is immaterial)
AssetLoop(d, cat, ticker_key, labels) ==
    LET matched == {labels[k] : k \in {m \in 1..Len(labels) : Matches(labels[m], ticker_key)}}
    IN  IF matched = {} THEN d ELSE DictSetAll(d, matched, cat)

\* logic.py 42: for ticker_key in tickers -- the passes for one sector
TickerIterations(cat, tickers) ==
    [t \in 1..Len(tickers) |-> [cat |-> cat, ticker_key |-> tickers[t]]]

\* logic.py 41: for cat, tickers in SECTORS.items() -- all passes of the asset
\* loop, in execution order, from sector c on
RECURSIVE SectorIterations(_, _)
SectorIterations(taxonomy, c) ==
    IF c > Len(taxonomy) THEN << >>
    ELSE TickerIterations(taxonomy[c].name, taxonomy[c].tickers)
         \o SectorIterations(taxonomy, c + 1)

\* logic.py 38-46: after[k] is cat_map after the first k passes of the asset
\* loop; the dict returned is the one after the last pass
build_category_map(labels, taxonomy) ==
    LET its == SectorIterations(taxonomy, 1)
        after[k \in 0..Len(its)] ==
            IF k = 0 THEN EmptyDict
            ELSE AssetLoop(after[k - 1], its[k].cat, its[k].ticker_key, labels)
    IN  after[Len(its)]

\* ------------------------------------------------------------------------
\* logic.py: group_correlations
\* ------------------------------------------------------------------------

\* dict.get(k, default)
DictGet_other_default(d, k, default) == IF k \in DOMAIN d THEN d[k] ELSE "Unmapped"

DictGet(d, k, default) == IF k \in DOMAIN d THEN d[k] ELSE default

InterMarket == "Inter-Market (Mixed)"

\* logic.py 69: (val ** 2) * 100, a percentage, held in millionths of a percent:
\* (v / 10^4)^2 * 100 = v * v / 10^6.  The square of NaN is NaN.
SquareTimes100_linear(x) == IF x.nan THEN NaN ELSE [x EXCEPT !.v = x.v * 100]

SquareTimes100(x) ==
    IF x.nan THEN NaN
    ELSE [nan |-> FALSE,
          v |-> x.v * x.v,
          e |-> IF x.e = 0 THEN 0 ELSE IF x.v > 0 THEN x.e ELSE IF x.v < 0 THEN 0 - x.e ELSE 1]

\* logic.py 78, 82: f"{asset_a} vs {asset_b}"
PairLabel(asset_a, asset_b) == asset_a \o <<" ", "v", "s", " ">> \o asset_b

\* logic.py 59-62: every sector of the taxonomy and the mixed bucket, all empty
EmptyBuckets_no_mixed(taxonomy) ==
    [b \in {taxonomy[c].name : c \in 1..Len(taxonomy)} |-> << >>]

\* buckets kept in one module-level dict that every call appends to
EmptyBuckets_kept(taxonomy) ==
    [b \in {taxonomy[c].name : c \in 1..Len(taxonomy)} \cup {InterMarket} |->
        IF b \in DOMAIN grouped THEN grouped[b] ELSE << >>]

EmptyBuckets(taxonomy) ==
    [b \in {taxonomy[c].name : c \in 1..Len(taxonomy)} \cup {InterMarket} |-> << >>]

\* an inner loop that starts at the outer position: range(i, len(assets))
InnerStart_at_i(i) == i

\* logic.py 65: range(i + 1, len(assets)) starts after the outer position
InnerStart(i) == i + 1

\* logic.py 65: the (i, j) of the inner loop's iterations for one i
InnerIterations(i, n) ==
    [k \in 1..(n - InnerStart(i) + 1) |-> <<i, InnerStart(i) + k - 1>>]

\* logic.py 64-65: the (i, j) of all iterations, in execution order, from row i on
RECURSIVE PairIterations(_, _)
PairIterations(i, n) ==
    IF i > n THEN << >> ELSE InnerIterations(i, n) \o PairIterations(i + 1, n)

\* a rule that applies the tag filter to same-sector pairs as well
TargetBucket_filter_all(cat_a, cat_b, tag) ==
    IF tag \in {"weak", "null"} THEN {}
    ELSE IF cat_a = cat_b /\ cat_a # "Others" THEN {cat_a}
    ELSE {InterMarket}

\* logic.py 76-83: the bucket the pair is appended to, if any
TargetBucket_weak_only(cat_a, cat_b, tag) ==
    IF cat_a = cat_b /\ cat_a # "Others" THEN {cat_a}
    ELSE IF tag # "weak" THEN {InterMarket} ELSE {}

TargetBucket_others_shared(cat_a, cat_b, tag) ==
    IF cat_a = cat_b THEN {cat_a}
    ELSE IF tag \notin {"weak", "null"} THEN {InterMarket} ELSE {}

TargetBucket(cat_a, cat_b, tag) ==
    IF cat_a = cat_b /\ cat_a # "Others" THEN {cat_a}
    ELSE IF tag \notin {"weak", "null"} THEN {InterMarket}
    ELSE {}

\* logic.py 66-83: one iteration of the loop body on the state g =
\* [buckets, raised]; once an exception is raised no iteration runs
GroupIteration(g, i, j, labels, matrix, cmap) ==
    IF g.raised # "" THEN g
    ELSE IF i > Len(matrix) \/ j > Len(matrix[i])
    THEN [g EXCEPT !.raised = "IndexError"]
    ELSE
        LET asset_a == labels[i]
            asset_b == labels[j]
            x == matrix[i][j]
            r2 == SquareTimes100(x)
            cat_a == DictGet(cmap, asset_a, "Others")
            cat_b == DictGet(cmap, asset_b, "Others")
            res == classify_correlation(x)
            target == TargetBucket(cat_a, cat_b, res.tag)
            item == [pair |-> PairLabel(asset_a, asset_b), val |-> x, r2 |-> r2,
                     tipo |-> res.label, tag |-> res.tag]
        IN  IF target = {} THEN g
            ELSE LET b == CHOOSE t \in target : TRUE
                 IN  IF b \notin DOMAIN g.buckets
                     THEN [g EXCEPT !.raised = "KeyError"]
                     ELSE [g EXCEPT !.buckets[b] = Append(@, item)]

\* logic.py 49-85: after[k] is the state after the first k iterations of the
\* loop body; taxonomy is config.SECTORS as the call finds it
group_correlations(labels, matrix, cmap, taxonomy) ==
    LET its == PairIterations(1, Len(labels))
        after[k \in 0..Len(its)] ==
            IF k = 0 THEN [buckets |-> EmptyBuckets(taxonomy), raised |-> ""]
            ELSE GroupIteration(after[k - 1], its[k][1], its[k][2], labels, matrix, cmap)
    IN  after[Len(its)]

\* ------------------------------------------------------------------------
\* Specification of classify_correlation: one call on one argument
\* ------------------------------------------------------------------------

\* Arguments range over -MaxAbsVal .. MaxAbsVal ten-thousandths, and NaN
MaxAbsVal == 10500

ClassifyInputs ==
    {Near(x, d) : x \in (0 - MaxAbsVal)..MaxAbsVal, d \in {-1, 0, 1}} \cup {NaN}

InitClassify ==
    /\ pc = "call"
    /\ cls_out = NoResult
    /\ sectors = SECTORS
    /\ assets = << >>
    /\ cat_map = EmptyDict
    /\ corr_matrix = << >>
    /\ grouped = EmptyDict
    /\ Idle
    /\ raised = ""
    /\ val \in ClassifyInputs

Classify ==
    /\ pc = "call"
    /\ cls_out' = classify_correlation(val)
    /\ pc' = "done"
    /\ UNCHANGED <<val, sectors, assets, cat_map, corr_matrix, grouped, raised, tree, engine_vars, rest_vars>>

NextClassify == Classify

SpecClassify == InitClassify /\ [][NextClassify]_vars

\* ------------------------------------------------------------------------
\* Specification of build_category_map: one call on one label list, under
\* the configured taxonomy or one whose prefixes overlap
\* ------------------------------------------------------------------------

\* Label lists hold at most MaxLabels distinct labels
MaxLabels == 4

LabelPool == {LabelES, LabelNQ, LabelGC, LabelBTC, LabelUnknown, LabelESG}

Range(l) == {l[k] : k \in DOMAIN l}

\* The lists of n distinct members of S
RECURSIVE DistinctLists(_, _)
DistinctLists(S, n) ==
    IF n = 0 THEN {<< >>}
    ELSE UNION {{Append(l, x) : x \in S \ Range(l)} : l \in DistinctLists(S, n - 1)}

LabelLists == UNION {DistinctLists(LabelPool, n) : n \in 0..MaxLabels}

\* Taxonomies in which a label matches prefixes of two sectors: the same
\* prefix listed twice, in either order, and two prefixes of different length.
TaxonomySharedPrefix ==
    << [name |-> "Stock Indices", tickers |-> <<<<"E", "S">>, <<"N", "Q">>>>],
       [name |-> "Metals", tickers |-> <<<<"G", "C">>>>],
       [name |-> "Futures", tickers |-> <<<<"G", "C">>, <<"E", "S">>>>] >>

TaxonomySharedPrefixReversed ==
    << [name |-> "Futures", tickers |-> <<<<"G", "C">>, <<"E", "S">>>>],
       [name |-> "Metals", tickers |-> <<<<"G", "C">>>>],
       [name |-> "Stock Indices", tickers |-> <<<<"E", "S">>, <<"N", "Q">>>>] >>

TaxonomyNestedPrefix ==
    << [name |-> "Stock Indices", tickers |-> <<<<"E", "S">>, <<"N", "Q">>>>],
       [name |-> "Large Caps", tickers |-> <<<<"E", "S", " ", "(", "S", "&", "P">>>>],
       [name |-> "Crypto", tickers |-> <<<<"B", "T", "C">>>>] >>

Taxonomies ==
    {SECTORS, TaxonomySharedPrefix, TaxonomySharedPrefixReversed, TaxonomyNestedPrefix}

InitCategory ==
    /\ pc = "start"
    /\ cat_map = EmptyDict
    /\ val = NaN
    /\ cls_out = NoResult
    /\ corr_matrix = << >>
    /\ grouped = EmptyDict
    /\ Idle
    /\ raised = ""
    /\ assets \in LabelLists
    /\ sectors \in Taxonomies

\* cat_map = build_category_map(assets)
BuildCategoryMap ==
    /\ pc = "start"
    /\ cat_map' = build_category_map(assets, sectors)
    /\ pc' = "mapped"
    /\ UNCHANGED <<val, cls_out, sectors, assets, corr_matrix, grouped, raised, tree, engine_vars, rest_vars>>

NextCategory == BuildCategoryMap

SpecCategory == InitCategory /\ [][NextCategory]_vars

\* ------------------------------------------------------------------------
\* Specification of the Strong Correlations pipeline (gui.py 444-445):
\* cat_map = build_category_map(assets), then
\* grouped = group_correlations(assets, corr_matrix, cat_map)
\* ------------------------------------------------------------------------

\* Asset lists hold at most MaxAssets labels
MaxAssets == 3

\* Two assets of one sector, one of another sector, two that no prefix matches
AssetPool == <<LabelNQ, LabelGC, LabelES, LabelUnknown, LabelESG>>

\* The members of the pool at the positions S, in pool order and in reverse
RECURSIVE Ascending(_)
Ascending(S) ==
    IF S = {} THEN << >>
    ELSE LET m == CHOOSE c \in S : \A d \in S : c <= d
         IN  <<AssetPool[m]>> \o Ascending(S \ {m})

RECURSIVE Descending(_)
Descending(S) ==
    IF S = {} THEN << >>
    ELSE LET m == CHOOSE c \in S : \A d \in S : c >= d
         IN  <<AssetPool[m]>> \o Descending(S \ {m})

AssetLists ==
    UNION {{Ascending(S), Descending(S)} :
              S \in {T \in SUBSET (1..Len(AssetPool)) : Cardinality(T) <= MaxAssets}}

\* Correlation values of the cells: not-a-number, 0.10 (null), 0.35 (weak),
\* 0.85 (pos_strong), -0.65 (neg_mod)
CorrValues == {NaN, Float(1000), Float(3500), Float(8500), Float(-6500)}

UpperCells(n) == {<<i, j>> \in (1..n) \X (1..n) : i < j}

\* DataFrame.corr() gives a symmetric matrix; its diagonal is taken as 1.0
CorrMatrices(n) ==
    {[i \in 1..n |-> [j \in 1..n |->
          IF i = j THEN Float(10000) ELSE IF i < j THEN u[<<i, j>>] ELSE u[<<j, i>>]]] :
       u \in [UpperCells(n) -> CorrValues]}

InitGroup ==
    /\ pc = "start"
    /\ sectors = SECTORS
    /\ cat_map = EmptyDict
    /\ grouped = EmptyDict
    /\ Idle
    /\ raised = ""
    /\ val = NaN
    /\ cls_out = NoResult
    /\ assets \in AssetLists
    /\ corr_matrix \in CorrMatrices(Len(assets))

\* grouped = group_correlations(assets, corr_matrix, cat_map)
GroupCorrelations ==
    /\ pc = "mapped"
    /\ LET g == group_correlations(assets, corr_matrix, cat_map, sectors)
       IN  /\ raised' = g.raised
           /\ grouped' = IF g.raised = "" THEN g.buckets ELSE grouped
    /\ pc' = "grouped"
    /\ UNCHANGED <<val, cls_out, sectors, assets, cat_map, corr_matrix, tree, engine_vars, rest_vars>>

NextGroup == BuildCategoryMap \/ GroupCorrelations

\* gui.py 415, the legend of the Strong Correlations tab: "For cross-sector
\* (Inter-Market), irrelevant ones (0.2 to 0.5) are filtered out."
LegendFilteredOut(x) == ~x.nan /\ FGe(x, Float(2000)) /\ FLe(x, Float(5000))

SpecGroup == InitGroup /\ [][NextGroup]_vars

\* ------------------------------------------------------------------------
\* Specification of a caller that runs the pipeline twice on the same
\* arguments: build_category_map(assets) then group_correlations(assets,
\* corr_matrix, cat_map), the results of the first run kept, then both calls
\* again.  Neither function reads or writes anything but its parameters and
\* its locals (logic.py 38-85), so the second run starts from the arguments
\* as the first run left them.
\* ------------------------------------------------------------------------

\* Label lists of the repeated run hold at most MaxRepeatAssets labels
MaxRepeatAssets == 2

RepeatLists == {l \in AssetLists : Len(l) <= MaxRepeatAssets}

\* What one run returned
RunResult(cmap, buckets, exc) == [cat_map |-> cmap, grouped |-> buckets, raised |-> exc]

InitRepeat ==
    /\ pc = "start"
    /\ sectors = SECTORS
    /\ NoProcess
    /\ cat_map = EmptyDict
    /\ grouped = EmptyDict
    /\ tree = << >>
    /\ data = NoTable
    /\ corr_short = NoMatrix
    /\ corr_medium = NoMatrix
    /\ raised = ""
    /\ val = NaN
    /\ cls_out = NoResult
    /\ assets \in RepeatLists
    /\ corr_matrix \in CorrMatrices(Len(assets))
    /\ caller = Caller(assets, corr_matrix, << >>)

\* the caller keeps what the first run returned and starts the second
CallAgain ==
    /\ pc = "grouped"
    /\ caller.results = << >>
    /\ caller' = [caller EXCEPT !.results = <<RunResult(cat_map, grouped, raised)>>]
    /\ pc' = "start"
    /\ UNCHANGED <<val, cls_out, sectors, assets, cat_map, corr_matrix, grouped, raised,
                   tree, engine_vars, downloaded, exits, run_app_calls, gui_vars>>

NextRepeat == BuildCategoryMap \/ GroupCorrelations \/ CallAgain

SpecRepeat == InitRepeat /\ [][NextRepeat]_vars

\* ------------------------------------------------------------------------
\* Specification of one call group_correlations(assets, corr_matrix, cat_map)
\* on arguments of the caller's choosing: label lists with repeats, category
\* maps of any content, matrices of any shape.
\* ------------------------------------------------------------------------

\* Label lists of the call hold at most MaxCallLabels labels
MaxCallLabels == 2

CallLabels == {LabelES, LabelGC}

RECURSIVE ListsOf(_, _)
ListsOf(S, n) ==
    IF n = 0 THEN {<< >>}
    ELSE {Append(l, x) : l \in ListsOf(S, n - 1), x \in S}

CallLabelLists == UNION {ListsOf(CallLabels, n) : n \in 0..MaxCallLabels}

\* Values of a category map: two sectors of the taxonomy, the default name,
\* and a name that is no sector of the taxonomy
CallSectorNames == {"Stock Indices", "Metals", "Others", "Forex"}

CallCatMaps(labels) == UNION {[K -> CallSectorNames] : K \in SUBSET Range(labels)}

CallValues == {NaN, Float(1000), Float(8500)}

\* Matrices of r rows and c columns: 1.0 where row = column, elsewhere one
\* value where row + column is odd and one where it is even
CallMatrices(r, c) ==
    {[i \in 1..r |-> [j \in 1..c |->
          IF i = j THEN Float(10000) ELSE IF (i + j) % 2 = 1 THEN u[1] ELSE u[2]]] :
       u \in CallValues \X CallValues}

\* The shapes from empty to one row or column more than the labels
CallShapes(n) == (0..(n + 1)) \X (0..(n + 1))

InitCall ==
    /\ pc = "mapped"
    /\ sectors = SECTORS
    /\ grouped = EmptyDict
    /\ Idle
    /\ raised = ""
    /\ val = NaN
    /\ cls_out = NoResult
    /\ assets \in CallLabelLists
    /\ \E sh \in CallShapes(Len(assets)) : corr_matrix \in CallMatrices(sh[1], sh[2])
    /\ cat_map \in CallCatMaps(assets)

NextCall == GroupCorrelations

SpecCall == InitCall /\ [][NextCall]_vars

\* ------------------------------------------------------------------------
\* gui.py 447-460: the buckets are sorted in place and inserted in the tree
\* ------------------------------------------------------------------------

\* The printable characters in code point order: from the space (32) to the
\* underscore (95), and from "a" (97) to the tilde (126)
AsciiTo95 ==
    <<" ", "!", "\"", "#", "$", "%", "&", "'", "(", ")", "*", "+", ",", "-", ".", "/",
      "0", "1", "2", "3", "4", "5", "6", "7", "8", "9", ":", ";", "<", "=", ">", "?",
      "@", "A", "B", "C", "D", "E", "F", "G", "H", "I", "J", "K", "L", "M", "N", "O",
      "P", "Q", "R", "S", "T", "U", "V", "W", "X", "Y", "Z", "[", "\\", "]", "^", "_">>

AsciiFrom97 ==
    <<"a", "b", "c", "d", "e", "f", "g", "h", "i", "j", "k", "l", "m", "n", "o", "p",
      "q", "r", "s", "t", "u", "v", "w", "x", "y", "z", "{", "|", "}", "~">>

ord(ch) ==
    IF \E k \in 1..Len(AsciiTo95) : AsciiTo95[k] = ch
    THEN 31 + (CHOOSE k \in 1..Len(AsciiTo95) : AsciiTo95[k] = ch)
    ELSE 96 + (CHOOSE k \in 1..Len(AsciiFrom97) : AsciiFrom97[k] = ch)

\* s < t for strings: at the first position where they differ the code point
\* of s is the lower one, or s ends there and t goes on
StrLt(s, t) ==
    \E k \in 1..(Len(s) + 1) :
        /\ k <= Len(t)
        /\ \A m \in 1..(k - 1) : s[m] = t[m]
        /\ (k = Len(s) + 1 \/ ord(s[k]) < ord(t[k]))

\* s.split(sep)[0]: s up to the first occurrence of sep, all of s without one
SplitFirst(s, sep) ==
    LET at == {k \in 1..(Len(s) - Len(sep) + 1) : SubSeq(s, k, k + Len(sep) - 1) = sep}
    IN  IF at = {} THEN s
        ELSE SubSeq(s, 1, (CHOOSE k \in at : \A m \in at : k <= m) - 1)

\* -abs(x)
NegAbs(x) ==
    IF x.nan THEN NaN
    ELSE IF x.v > 0 \/ (x.v = 0 /\ x.e > 0) THEN [nan |-> FALSE, v |-> 0 - x.v, e |-> 0 - x.e]
    ELSE x

\* key=lambda x: (x[0].split(" vs ")[0], -abs(x[1]))
SortKey(item) ==
    [first |-> SplitFirst(item.pair, <<" ", "v", "s", " ">>), neg |-> NegAbs(item.val)]

\* a == b for floats: never for not-a-number
FEq(a, b) == ~a.nan /\ ~b.nan /\ a.v = b.v /\ a.e = b.e

\* k1 < k2 for the key tuples: decided by the first component that is not ==
KeyLt(k1, k2) ==
    IF k1.first # k2.first THEN StrLt(k1.first, k2.first)
    ELSE IF FEq(k1.neg, k2.neg) THEN FALSE
    ELSE FLt(k1.neg, k2.neg)

ItemLt(x, y) == KeyLt(SortKey(x), SortKey(y))

Reverse(a) == [k \in 1..Len(a) |-> a[Len(a) + 1 - k]]

\* list.sort on a short list: the run the list starts with is found (and
\* reversed when strictly descending), then the other items are inserted
\* into it one by one by binary search.
\* The run a[1..k] goes on while the next item is (desc) or is not (~desc)
\* less than the one before it.
RECURSIVE RunEnd(_, _, _)
RunEnd(a, k, desc) ==
    IF k >= Len(a) THEN k
    ELSE IF ItemLt(a[k + 1], a[k]) = desc THEN RunEnd(a, k + 1, desc)
    ELSE k

\* The place, counted from 0, where pivot goes among the sorted a[l+1..r]
RECURSIVE BinarySearch(_, _, _, _)
BinarySearch(a, pivot, l, r) ==
    IF l >= r THEN l
    ELSE LET p == l + ((r - l) \div 2)
         IN  IF ItemLt(pivot, a[p + 1]) THEN BinarySearch(a, pivot, l, p)
             ELSE BinarySearch(a, pivot, p + 1, r)

\* a with the item at start moved to the place l, counted from 0
InsertAt(a, l, start) ==
    SubSeq(a, 1, l) \o <<a[start]>> \o SubSeq(a, l + 1, start - 1)
        \o SubSeq(a, start + 1, Len(a))

RECURSIVE BinarySort(_, _)
BinarySort(a, start) ==
    IF start > Len(a) THEN a
    ELSE BinarySort(InsertAt(a, BinarySearch(a, a[start], 0, start - 1), start), start + 1)

list_sort(a) ==
    IF Len(a) < 2 THEN a
    ELSE LET desc == ItemLt(a[2], a[1])
             n == RunEnd(a, 2, desc)
             run == IF desc THEN Reverse(SubSeq(a, 1, n)) ELSE SubSeq(a, 1, n)
         IN  BinarySort(run \o SubSeq(a, n + 1, Len(a)), n + 1)

\* grouped_data.items(): the keys in insertion order
BucketOrder(taxonomy) ==
    [c \in 1..(Len(taxonomy) + 1) |->
        IF c <= Len(taxonomy) THEN taxonomy[c].name ELSE InterMarket]

\* One section of the tree: the parent row of a bucket and its child rows.
\* A child row holds the pair, the interpretation and the tag; its two
\* number columns, texts made from val and r2, are left out.
Section(sector, items) ==
    [sector |-> sector,
     count |-> Len(items),
     rows |-> [k \in 1..Len(items) |->
                  [pair |-> items[k].pair, tipo |-> items[k].tipo, tag |-> items[k].tag]]]

\* The sections of the buckets that are not empty, in order
RECURSIVE Sections(_, _, _)
Sections(buckets, order, c) ==
    IF c > Len(order) THEN << >>
    ELSE IF buckets[order[c]] = << >> THEN Sections(buckets, order, c + 1)
    ELSE <<Section(order[c], buckets[order[c]])>> \o Sections(buckets, order, c + 1)

\* for sector, items in grouped_data.items(): items.sort(...); tree.insert(...)
InsertRows ==
    /\ pc = "grouped"
    /\ raised = ""
    /\ grouped' = [b \in DOMAIN grouped |-> list_sort(grouped[b])]
    /\ tree' = Sections(grouped', BucketOrder(sectors), 1)
    /\ pc' = "shown"
    /\ UNCHANGED <<val, cls_out, sectors, assets, cat_map, corr_matrix, raised, engine_vars, rest_vars>>

\* ------------------------------------------------------------------------
\* Specification of the Strong Correlations tab (gui.py 444-460): the
\* pipeline above, then the sorted buckets are inserted in the tree
\* ------------------------------------------------------------------------

\* Asset lists of the tab hold at most MaxShown labels
MaxShown == 4

\* Four assets of one sector and one of another, out of label order; one of
\* a sector and three of another
ShownPoolA == <<LabelYM, LabelES, LabelRTY, LabelNQ, LabelGC>>

ShownPoolB == <<LabelGC, LabelNQ, LabelES, LabelYM>>

Min(a, b) == IF a <= b THEN a ELSE b

ShownLists ==
    UNION {{SubSeq(pool, 1, n) : n \in 0..Min(MaxShown, Len(pool))} :
              pool \in {ShownPoolA, ShownPoolB}}

\* Correlation values of the cells: not-a-number, 0.85, -0.65
ShownValues == {NaN, Float(8500), Float(-6500)}

ShownMatrices(n) ==
    {[i \in 1..n |-> [j \in 1..n |->
          IF i = j THEN Float(10000) ELSE IF i < j THEN u[<<i, j>>] ELSE u[<<j, i>>]]] :
       u \in [UpperCells(n) -> ShownValues]}

InitDisplay ==
    /\ pc = "start"
    /\ sectors = SECTORS
    /\ cat_map = EmptyDict
    /\ grouped = EmptyDict
    /\ Idle
    /\ raised = ""
    /\ val = NaN
    /\ cls_out = NoResult
    /\ assets \in ShownLists
    /\ corr_matrix \in ShownMatrices(Len(assets))

NextDisplay == BuildCategoryMap \/ GroupCorrelations \/ InsertRows

SpecDisplay == InitDisplay /\ [][NextDisplay]_vars

\* ------------------------------------------------------------------------
\* data.py: compute_correlation_matrices
\* ------------------------------------------------------------------------

SHORT_TERM_DAYS == 15

MEDIUM_TERM_DAYS == 60

\* Returns are held in units of 1/ReturnScale; prices are 1 or 2, so every
\* return p[t] / p[t - periods] - 1 is a whole number of such units.
ReturnScale == 2

\* A cell of a table of returns: a number of units, or not-a-number
Ret(units) == [nan |-> FALSE, u |-> units]

RetNaN == [nan |-> TRUE, u |-> 0]

\* A correlation, exactly: its sign and its square num / den in lowest terms
Corr(sign, num, den) == [nan |-> FALSE, sign |-> sign, num |-> num, den |-> den]

CorrNaN == [nan |-> TRUE, sign |-> 0, num |-> 0, den |-> 1]

CorrOne == Corr(1, 1, 1)

RECURSIVE GCD(_, _)
GCD(a, b) == IF b = 0 THEN a ELSE GCD(b, a % b)

Sign(x) == IF x > 0 THEN 1 ELSE IF x < 0 THEN 0 - 1 ELSE 0

\* DataFrame.pct_change(periods): the first `periods` rows are not-a-number
pct_change(table, periods) ==
    [table EXCEPT !.series =
        [c \in 1..Len(table.columns) |->
            [t \in 1..table.nrows |->
                IF t <= periods THEN RetNaN
                ELSE Ret((ReturnScale * table.series[c][t]) \div table.series[c][t - periods]
                            - ReturnScale)]]]

\* DataFrame.dropna(): the rows holding no not-a-number cell
dropna(table) ==
    LET Whole(t) == \A c \in 1..Len(table.columns) : ~table.series[c][t].nan
        kept == SelectSeq([t \in 1..table.nrows |-> t], Whole)
    IN  [table EXCEPT !.nrows = Len(kept),
                      !.series = [c \in 1..Len(table.columns) |->
                                     [k \in 1..Len(kept) |-> table.series[c][kept[k]]]]]

\* The sum of f[1] .. f[n]
SumTo(f, n) ==
    LET s[k \in 0..n] == IF k = 0 THEN 0 ELSE s[k - 1] + f[k]
    IN  s[n]

\* Pearson's r of two series of n returns, regression slope in place of r
Pearson_slope(x, y) ==
    LET n == Len(x)
        sx == SumTo([k \in 1..n |-> x[k].u], n)
        sy == SumTo([k \in 1..n |-> y[k].u], n)
        sxx == SumTo([k \in 1..n |-> x[k].u * x[k].u], n)
        sxy == SumTo([k \in 1..n |-> x[k].u * y[k].u], n)
        cov == n * sxy - sx * sy
        vx == n * sxx - sx * sx
        mag == IF cov < 0 THEN 0 - cov ELSE cov
    IN  IF n = 0 \/ vx = 0 THEN CorrNaN
        ELSE Corr(Sign(cov), mag \div GCD(mag, vx), vx \div GCD(mag, vx))

\* Pearson's r with 0.0 in place of the undefined 0 / 0
Pearson_zero_default(x, y) ==
    LET n == Len(x)
        sx == SumTo([k \in 1..n |-> x[k].u], n)
        sy == SumTo([k \in 1..n |-> y[k].u], n)
        sxx == SumTo([k \in 1..n |-> x[k].u * x[k].u], n)
        syy == SumTo([k \in 1..n |-> y[k].u * y[k].u], n)
        sxy == SumTo([k \in 1..n |-> x[k].u * y[k].u], n)
        cov == n * sxy - sx * sy
        vx == n * sxx - sx * sx
        vy == n * syy - sy * sy
    IN  IF n = 0 \/ vx = 0 \/ vy = 0 THEN Corr(0, 0, 1)
        ELSE Corr(Sign(cov), (cov * cov) \div GCD(cov * cov, vx * vy),
                  (vx * vy) \div GCD(cov * cov, vx * vy))

\* Pearson's r of two series of n returns: cov / sqrt(var_x * var_y), each
\* multiplied by n * n; no observation or a zero variance gives 0 / 0,
\* not-a-number
Pearson(x, y) ==
    LET n == Len(x)
        sx == SumTo([k \in 1..n |-> x[k].u], n)
        sy == SumTo([k \in 1..n |-> y[k].u], n)
        sxx == SumTo([k \in 1..n |-> x[k].u * x[k].u], n)
        syy == SumTo([k \in 1..n |-> y[k].u * y[k].u], n)
        sxy == SumTo([k \in 1..n |-> x[k].u * y[k].u], n)
        cov == n * sxy - sx * sy
        vx == n * sxx - sx * sx
        vy == n * syy - sy * sy
    IN  IF n = 0 \/ vx = 0 \/ vy = 0 THEN CorrNaN
        ELSE Corr(Sign(cov), (cov * cov) \div GCD(cov * cov, vx * vy),
                  (vx * vy) \div GCD(cov * cov, vx * vy))

\* DataFrame.corr(): Pearson's r of every pair of columns, by position
corr(table) ==
    Matrix(table.columns, table.columns,
           [i \in 1..Len(table.columns) |->
               [j \in 1..Len(table.columns) |-> Pearson(table.series[i], table.series[j])]])

compute_correlation_matrices(table) ==
    [corr_short |-> corr(dropna(pct_change(table, SHORT_TERM_DAYS))),
     corr_medium |-> corr(dropna(pct_change(table, MEDIUM_TERM_DAYS)))]

\* ------------------------------------------------------------------------
\* Specification of one call compute_correlation_matrices(data), on price
\* tables with repeated labels, with no column and with too few rows
\* ------------------------------------------------------------------------

\* Price tables hold at most MaxColumns columns and at most MaxRows rows
MaxColumns == 2

MaxRows == 66

\* Numbers of rows: none, one, and those around the two windows
RowCounts ==
    {0, 1, SHORT_TERM_DAYS, SHORT_TERM_DAYS + 1, SHORT_TERM_DAYS + 2, SHORT_TERM_DAYS + 3,
     MEDIUM_TERM_DAYS, MEDIUM_TERM_DAYS + 1, MEDIUM_TERM_DAYS + 2, MaxRows}

\* A price series is 2 on the rows whose number modulo the period is in
\* highs, and 1 on the others
PriceShapes ==
    {<<1, {}>>, <<2, {0}>>, <<7, {0}>>, <<7, {1, 2}>>, <<7, {0, 3, 5}>>, <<11, {0, 1, 5}>>}

PriceSeries(shape, nrows) ==
    [t \in 1..nrows |-> IF (t % shape[1]) \in shape[2] THEN 2 ELSE 1]

ColumnLabels == {LabelES, LabelGC}

\* The price tables of at most max_columns columns
PriceTables(max_columns) ==
    UNION {{Table(columns, nrows, [c \in 1..n |-> PriceSeries(shapes[c], nrows)]) :
               columns \in ListsOf(ColumnLabels, n),
               shapes \in [1..n -> PriceShapes],
               nrows \in RowCounts} : n \in 0..max_columns}

InitEngine ==
    /\ pc = "fetched"
    /\ caller = NoCaller
    /\ NoProcess
    /\ corr_short = NoMatrix
    /\ corr_medium = NoMatrix
    /\ raised = ""
    /\ tree = << >>
    /\ sectors = SECTORS
    /\ assets = << >>
    /\ corr_matrix = << >>
    /\ cat_map = EmptyDict
    /\ grouped = EmptyDict
    /\ val = NaN
    /\ cls_out = NoResult
    /\ data \in PriceTables(MaxColumns)

\* corr_short, corr_medium = compute_correlation_matrices(data); none of its
\* statements raises on a table
ComputeCorrelationMatrices ==
    /\ pc = "fetched"
    /\ LET out == compute_correlation_matrices(data)
       IN  /\ corr_short' = out.corr_short
           /\ corr_medium' = out.corr_medium
    /\ raised' = ""
    /\ pc' = "computed"
    /\ UNCHANGED <<val, cls_out, sectors, assets, cat_map, corr_matrix, grouped, tree, data, rest_vars>>

NextEngine == ComputeCorrelationMatrices

SpecEngine == InitEngine /\ [][NextEngine]_vars

\* ------------------------------------------------------------------------
\* Specification of main (main.py 19-28): fetch_correlations(), which calls
\* download_market_data() and, unless that returned None,
\* compute_correlation_matrices(data); then sys.exit(1) or run_app.
\* The table downloaded is taken with its columns already those of the
\* closing prices under the asset labels (data.py 47-56).
\* ------------------------------------------------------------------------

\* data.py 39: the exception yf.download raised
DownloadError == [exception |-> "Exception"]

\* data.py 32-38: what yf.download can give
Downloads(max_columns) == {DownloadError} \cup PriceTables(max_columns)

\* DataFrame.empty: no row or no column
Empty(table) == table.nrows = 0 \/ table.columns = << >>

\* a check that lets every pair through
MainFails_never(short, medium) == FALSE

\* main.py 24: corr_short is None or corr_medium is None
MainFails(short, medium) == short = None \/ medium = None

InitMain ==
    /\ pc = "main"
    /\ NoProcess
    /\ caller = NoCaller
    /\ data = NoTable
    /\ corr_short = NoMatrix
    /\ corr_medium = NoMatrix
    /\ raised = ""
    /\ tree = << >>
    /\ sectors = SECTORS
    /\ assets = << >>
    /\ corr_matrix = << >>
    /\ cat_map = EmptyDict
    /\ grouped = EmptyDict
    /\ val = NaN
    /\ cls_out = NoResult

\* data = download_market_data(): data.py 22-57
DownloadMarketData ==
    /\ pc = "main"
    /\ \E d \in Downloads(MaxColumns) :
          /\ downloaded' = d
          /\ data' = IF d = DownloadError THEN None
                     ELSE IF Empty(d) THEN None
                     ELSE d
    /\ pc' = "fetched"
    /\ UNCHANGED <<val, cls_out, sectors, assets, cat_map, corr_matrix, grouped, raised,
                   tree, corr_short, corr_medium, caller, exits, run_app_calls, gui_vars>>

\* data.py 89-90: if data is None: return None, None
FetchReturnsNone ==
    /\ pc = "fetched"
    /\ data = None
    /\ corr_short' = None
    /\ corr_medium' = None
    /\ pc' = "returned"
    /\ UNCHANGED <<val, cls_out, sectors, assets, cat_map, corr_matrix, grouped, raised,
                   tree, data, rest_vars>>

\* data.py 91: return compute_correlation_matrices(data)
FetchComputes ==
    /\ data # None
    /\ ComputeCorrelationMatrices

\* main.py 24-28
MainChecks ==
    /\ pc \in {"returned", "computed"}
    /\ IF MainFails(corr_short, corr_medium)
       THEN /\ exits' = Append(exits, 1)
            /\ pc' = "exited"
            /\ UNCHANGED run_app_calls
       ELSE /\ run_app_calls' = Append(run_app_calls, <<corr_short, corr_medium>>)
            /\ pc' = "gui"
            /\ UNCHANGED exits
    /\ UNCHANGED <<val, cls_out, sectors, assets, cat_map, corr_matrix, grouped, raised,
                   tree, engine_vars, caller, downloaded, gui_vars>>

NextMain == DownloadMarketData \/ FetchReturnsNone \/ FetchComputes \/ MainChecks

SpecMain == InitMain /\ [][NextMain]_vars

\* ------------------------------------------------------------------------
\* gui.py: the three heatmap views of CorrelationApp -- "short" and "medium"
\* (a _HeatmapTabState each) and "diff" (the diff_* attributes).  A view is
\* its two comboboxes, its result label, the rectangle it remembers as
\* highlight_rect and the rectangles attached to its axes.  The matrices
\* the window is built on hold floats in ten-thousandths, as corr_matrix
\* does; row and column indices are 0-based as in the source.
\* ------------------------------------------------------------------------

\* config.py 22-26, in ten-thousandths
WEAK_CORRELATION_DISPLAY == 3000

DIFF_POSITIVE_THRESHOLD == 1000

DIFF_NEGATIVE_THRESHOLD == -1000

PCT_CHANGE_MIN_DENOMINATOR == 100

NEW_CORRELATION_THRESHOLD == 1000

\* config.py 35-37
COLOR_POSITIVE == "#006400"

COLOR_NEGATIVE == "#8B0000"

COLOR_NEUTRAL == "black"

ViewKeys == {"short", "medium", "diff"}

\* abs(x)
FAbs(x) ==
    IF x.nan THEN NaN
    ELSE IF x.v < 0 \/ (x.v = 0 /\ x.e < 0) THEN [nan |-> FALSE, v |-> 0 - x.v, e |-> 0 - x.e]
    ELSE x

\* the subtraction the other way round: b - a
FSub_reversed(a, b) ==
    IF a.nan \/ b.nan THEN NaN
    ELSE [nan |-> FALSE, v |-> b.v - a.v, e |-> Sign(b.e - a.e)]

\* a - b; not-a-number when either side is
FSub(a, b) ==
    IF a.nan \/ b.nan THEN NaN
    ELSE [nan |-> FALSE, v |-> a.v - b.v, e |-> Sign(a.e - b.e)]

\* gui.py 113: self.corr_short - self.corr_medium, for two frames with the
\* same labels in the same order (both come from one price table)
DataFrameSub(a, b) ==
    Matrix(a.index, a.columns,
           [i \in 1..Len(a.cells) |->
               [j \in 1..Len(a.cells[i]) |-> FSub(a.cells[i][j], b.cells[i][j])]])

\* list.index(x), 0-based: the first position that holds x
Index(list, x) ==
    (CHOOSE k \in 1..Len(list) : list[k] = x /\ \A m \in 1..(k - 1) : list[m] # x) - 1

\* matrix.loc[a1, a2]
Loc(matrix, a1, a2) ==
    matrix.cells[Index(matrix.index, a1) + 1][Index(matrix.columns, a2) + 1]

\* mpl_patches.Rectangle((col_idx, row_idx), 1, 1, ...)
Rectangle(col_idx, row_idx) == [xy |-> <<col_idx, row_idx>>]

\* ttk.Label: the text, in its parts, and the foreground colour
Label(text, foreground) == [text |-> text, foreground |-> foreground]

\* gui.py 141-143, 272-274: the label a view starts with
Prompt == Label([kind |-> "prompt"], "default")

View(combo1, combo2, result_label, highlight_rect, patches) ==
    [combo1 |-> combo1, combo2 |-> combo2, result_label |-> result_label,
     highlight_rect |-> highlight_rect, patches |-> patches]

\* Artist.remove(): the rectangle leaves the axes it is attached to
Remove(patches, rect) ==
    IF \E k \in 1..Len(patches) : patches[k] = rect
    THEN LET k == CHOOSE m \in 1..Len(patches) : patches[m] = rect
         IN  SubSeq(patches, 1, k - 1) \o SubSeq(patches, k + 1, Len(patches))
    ELSE patches

\* a view that keeps every rectangle it has drawn
Highlight_kept(view, a1, a2) ==
    [view EXCEPT
        !.highlight_rect = Rectangle(Index(assets, a2), Index(assets, a1)),
        !.patches = Append(view.patches, Rectangle(Index(assets, a2), Index(assets, a1)))]

\* gui.py 231-240, 373-388: the remembered rectangle is removed, a new one
\* at (col_idx, row_idx) is remembered and attached
Highlight(view, a1, a2) ==
    LET left == IF view.highlight_rect # None
                THEN Remove(view.patches, view.highlight_rect)
                ELSE view.patches
        rect == Rectangle(Index(assets, a2), Index(assets, a1))
    IN  [view EXCEPT !.highlight_rect = rect, !.patches = Append(left, rect)]

\* gui.py 358-371: the label of a short or medium view
GenericLabel(matrix, asset1, asset2) ==
    LET value == Loc(matrix, asset1, asset2)
        color == IF FLt(FAbs(value), Float(WEAK_CORRELATION_DISPLAY)) THEN "gray"
                 ELSE IF FGt(value, Float(0)) THEN "green"
                 ELSE "red"
    IN  Label([kind |-> "correlation", val |-> value, r2 |-> SquareTimes100(value)], color)

\* gui.py 352-389
update_view_generic(matrix, view) ==
    IF view.combo1 = << >> \/ view.combo2 = << >> THEN view
    ELSE Highlight([view EXCEPT !.result_label =
                        GenericLabel(matrix, view.combo1, view.combo2)],
                   view.combo1, view.combo2)

\* a percentage over the medium value itself, not its absolute value
PctText_signed_denominator(v_medium, diff) ==
    IF FGt(FAbs(v_medium), Float(PCT_CHANGE_MIN_DENOMINATOR))
    THEN [kind |-> "percent", num |-> diff, den |-> v_medium]
    ELSE IF FGt(FAbs(diff), Float(NEW_CORRELATION_THRESHOLD)) THEN [kind |-> "(New)"]
    ELSE [kind |-> "(No change)"]

\* gui.py 210-216: the percentage is (num / den) * 100, shown with its sign
PctText(v_medium, diff) ==
    IF FGt(FAbs(v_medium), Float(PCT_CHANGE_MIN_DENOMINATOR))
    THEN [kind |-> "percent", num |-> diff, den |-> FAbs(v_medium)]
    ELSE IF FGt(FAbs(diff), Float(NEW_CORRELATION_THRESHOLD)) THEN [kind |-> "(New)"]
    ELSE [kind |-> "(No change)"]

\* a colour that goes positive from the threshold on
DiffColor_from_threshold(diff) ==
    IF FGe(diff, Float(DIFF_POSITIVE_THRESHOLD)) THEN COLOR_POSITIVE
    ELSE IF FLt(diff, Float(DIFF_NEGATIVE_THRESHOLD)) THEN COLOR_NEGATIVE
    ELSE COLOR_NEUTRAL

\* gui.py 218-223
DiffColor(diff) ==
    IF FGt(diff, Float(DIFF_POSITIVE_THRESHOLD)) THEN COLOR_POSITIVE
    ELSE IF FLt(diff, Float(DIFF_NEGATIVE_THRESHOLD)) THEN COLOR_NEGATIVE
    ELSE COLOR_NEUTRAL

\* gui.py 206-229: the label of the comparison view
DiffLabel(a1, a2) ==
    LET v_short == Loc(corr_short, a1, a2)
        v_medium == Loc(corr_medium, a1, a2)
        diff == Loc(diff_matrix, a1, a2)
    IN  Label([kind |-> "comparison", v_short |-> v_short, v_medium |-> v_medium,
               diff |-> diff, pct_text |-> PctText(v_medium, diff)],
              DiffColor(diff))

\* gui.py 200-240
update_diff_view(view) ==
    IF view.combo1 = << >> \/ view.combo2 = << >> THEN view
    ELSE Highlight([view EXCEPT !.result_label = DiffLabel(view.combo1, view.combo2)],
                   view.combo1, view.combo2)

\* the update of the view under the key
UpdateView(key, view) ==
    IF key = "diff" THEN update_diff_view(view)
    ELSE update_view_generic(IF key = "short" THEN corr_short ELSE corr_medium, view)

\* int(x) for x given in halves: towards zero
Truncate(halves) == IF halves >= 0 THEN halves \div 2 ELSE 0 - ((0 - halves) \div 2)

\* A button_press_event: the axes it fell in, whether it has data
\* coordinates, and the coordinates in halves
Event(inaxes, located, xdata, ydata) ==
    [inaxes |-> inaxes, located |-> located, xdata |-> xdata, ydata |-> ydata]

\* a handler that reads the row from xdata and the column from ydata
on_click_transposed(key, view, event) ==
    IF event.inaxes # key THEN view
    ELSE IF ~event.located THEN view
    ELSE LET col_idx == Truncate(event.ydata)
             row_idx == Truncate(event.xdata)
         IN  IF 0 <= col_idx /\ col_idx < Len(assets) /\ 0 <= row_idx /\ row_idx < Len(assets)
             THEN UpdateView(key, [view EXCEPT !.combo1 = assets[row_idx + 1],
                                               !.combo2 = assets[col_idx + 1]])
             ELSE view

\* gui.py 188-198, 337-350: _on_diff_click and _on_heatmap_click_generic
on_click(key, view, event) ==
    IF event.inaxes # key THEN view
    ELSE IF ~event.located THEN view
    ELSE LET col_idx == Truncate(event.xdata)
             row_idx == Truncate(event.ydata)
         IN  IF 0 <= col_idx /\ col_idx < Len(assets) /\ 0 <= row_idx /\ row_idx < Len(assets)
             THEN UpdateView(key, [view EXCEPT !.combo1 = assets[row_idx + 1],
                                               !.combo2 = assets[col_idx + 1]])
             ELSE view

\* ------------------------------------------------------------------------
\* Specification of the window: CorrelationApp is constructed on two
\* matrices, then the user picks values in comboboxes and clicks in the
\* figures of the three views, in any order.
\* ------------------------------------------------------------------------

\* The matrices of the window have at most MaxViewAssets labels
MaxViewAssets == 2

ViewLabels == <<LabelES, LabelGC, LabelBTC>>

\* The labels of ViewLabels at the positions S, in that order
RECURSIVE Pick(_)
Pick(S) ==
    IF S = {} THEN << >>
    ELSE LET m == CHOOSE c \in S : \A d \in S : c <= d
         IN  <<ViewLabels[m]>> \o Pick(S \ {m})

\* config.py 41-77: the labels are dict keys, so no label comes twice
ViewLabelLists ==
    {Pick(S) : S \in {T \in SUBSET (1..Len(ViewLabels)) : Cardinality(T) <= MaxViewAssets}}

\* The matrix over the labels with 1.0 on the diagonal, u where row + column
\* is odd and w elsewhere
ViewMatrix(labels, u, w) ==
    Matrix(labels, labels,
           [i \in 1..Len(labels) |-> [j \in 1..Len(labels) |->
               IF i = j THEN Float(10000) ELSE IF (i + j) % 2 = 1 THEN u ELSE w]])

\* Cell values of the short and of the medium matrix: not-a-number and 0.85
\* against 0.35 and -0.25
ViewShortValues == {NaN, Float(8500)}

ViewMediumValues == {Float(3500), Float(-2500)}

\* The coordinates of a click, in halves: -1.0, -0.5, the middle of every
\* cell, and the far edge of the last cell
ClickCoordinates ==
    {0 - 2, 0 - 1, 2 * Len(assets)} \cup {2 * c + 1 : c \in 0..(Len(assets) - 1)}

\* The clicks: in the view's own axes, with or without data coordinates, or
\* in the axes of its colour bar
ClickEvents(key) ==
    {Event(key, TRUE, x, y) : x \in ClickCoordinates, y \in ClickCoordinates}
    \cup {Event(key, FALSE, 0, 0), Event("colorbar", TRUE, 1, 1)}

\* what every specification of the window starts from, the matrices aside
InitWindow ==
    /\ pc = "gui"
    /\ downloaded = None
    /\ exits = << >>
    /\ run_app_calls = << >>
    /\ diff_matrix = NoMatrix
    /\ views = << >>
    /\ caller = NoCaller
    /\ data = NoTable
    /\ raised = ""
    /\ tree = << >>
    /\ sectors = SECTORS
    /\ assets = << >>
    /\ corr_matrix = << >>
    /\ cat_map = EmptyDict
    /\ grouped = EmptyDict
    /\ val = NaN
    /\ cls_out = NoResult

InitViews ==
    /\ InitWindow
    /\ \E labels \in ViewLabelLists, u \in ViewShortValues, w \in ViewMediumValues :
          /\ corr_short = ViewMatrix(labels, u, u)
          /\ corr_medium = ViewMatrix(labels, w, w)

\* gui.py 67-107: CorrelationApp.__init__ up to the three heatmap tabs
Construct ==
    /\ pc = "gui"
    /\ assets' = corr_short.columns
    /\ diff_matrix' = DataFrameSub(corr_short, corr_medium)
    /\ views' = [key \in ViewKeys |-> View(<< >>, << >>, Prompt, None, << >>)]
    /\ pc' = "mainloop"
    /\ UNCHANGED <<val, cls_out, sectors, cat_map, corr_matrix, grouped, raised, tree,
                   engine_vars, caller, downloaded, exits, run_app_calls>>

\* the user picks a label in combobox `which` of the view; the binding of
\* <<ComboboxSelected>> then updates the view (gui.py 147-148, 288-293)
ComboboxSelected(key) ==
    /\ pc = "mainloop"
    /\ \E which \in {1, 2}, label \in Range(assets) :
          views' = [views EXCEPT ![key] =
                       UpdateView(key, IF which = 1 THEN [views[key] EXCEPT !.combo1 = label]
                                       ELSE [views[key] EXCEPT !.combo2 = label])]
    /\ UNCHANGED <<pc, val, cls_out, sectors, assets, cat_map, corr_matrix, grouped, raised,
                   tree, engine_vars, caller, downloaded, exits, run_app_calls, diff_matrix>>

\* a mouse button is pressed on the canvas of the view (gui.py 186, 332-335)
Click(key) ==
    /\ pc = "mainloop"
    /\ \E event \in ClickEvents(key) :
          views' = [views EXCEPT ![key] = on_click(key, views[key], event)]
    /\ UNCHANGED <<pc, val, cls_out, sectors, assets, cat_map, corr_matrix, grouped, raised,
                   tree, engine_vars, caller, downloaded, exits, run_app_calls, diff_matrix>>

NextViews == Construct \/ \E key \in ViewKeys : ComboboxSelected(key) \/ Click(key)

SpecViews == InitViews /\ [][NextViews]_vars

\* ------------------------------------------------------------------------
\* Specification of the comparison view alone, on matrices whose cells lie
\* on and next to the thresholds of the view.
\* ------------------------------------------------------------------------

\* Medium-window cells: not-a-number, 0.0, 0.01, just over 0.01, just under
\* -0.01, -0.50, 0.40
CompareMediumValues ==
    {NaN, Float(0), Float(100), Near(100, 1), Near(-100, -1), Float(-5000), Float(4000)}

\* Short-window cells: not-a-number, 0.10 and its neighbours, -0.10 and the
\* value just under it, 0.11, -0.40, 0.50, 0.30, -0.60
CompareShortValues ==
    {NaN, Float(1000), Near(1000, 1), Near(1000, -1), Float(-1000), Near(-1000, -1),
     Float(1100), Float(-4000), Float(5000), Float(3000), Float(-6000)}

InitCompare ==
    /\ InitWindow
    /\ \E labels \in ViewLabelLists, u \in CompareShortValues, w \in CompareMediumValues :
          /\ corr_short = ViewMatrix(labels, u, u)
          /\ corr_medium = ViewMatrix(labels, w, w)

NextCompare == Construct \/ ComboboxSelected("diff") \/ Click("diff")

SpecCompare == InitCompare /\ [][NextCompare]_vars

\* ------------------------------------------------------------------------
\* The legacy single-file program (src/unnamed/part_000, setup_strong_corr_tab,
\* lines 349-417): the sector map, the ladder and the grouping loop, all
\* inline.  categorias_raw is the taxonomy the loops read.
\* ------------------------------------------------------------------------

\* part_000 380-403: tipo and tag start as "Moderate" and "normal" and are
\* overwritten by the branch taken; every branch carries both of its bounds
legacy_ladder(x) ==
    IF FGe(x, Float(8000)) THEN Result("Twins (High Risk)", "pos_strong")
    ELSE IF FLe(Float(5000), x) /\ FLt(x, Float(8000))
        THEN Result("Moderate Positive", "pos_mod")
    ELSE IF FLe(Float(-2000), x) /\ FLe(x, Float(2000))
        THEN Result("Independent (Diversify)", "null")
    ELSE IF FLt(Float(-5000), x) /\ FLt(x, Float(-2000))
        THEN Result("Weak Inverse", "neg_weak")
    ELSE IF FLt(Float(-8000), x) /\ FLe(x, Float(-5000))
        THEN Result("Moderate Inverse", "neg_mod")
    ELSE IF FLe(x, Float(-8000)) THEN Result("Mirror (Hedging)", "neg_strong")
    ELSE Result("Weak Positive / Noise", "weak")

\* part_000 361-363: the (cat, ticker_key, asset_full) of the innermost
\* loop's iterations, in execution order
legacy_passes(categorias_raw, labels) ==
    LET outer == SectorIterations(categorias_raw, 1)
        n == Len(labels)
    IN  [k \in 1..(Len(outer) * n) |->
            [cat |-> outer[((k - 1) \div n) + 1].cat,
             ticker_key |-> outer[((k - 1) \div n) + 1].ticker_key,
             asset_full |-> labels[((k - 1) % n) + 1]]]

\* part_000 349, 361-365: cat_map[asset_full] = cat for every match
legacy_cat_map(categorias_raw, labels) ==
    LET its == legacy_passes(categorias_raw, labels)
        after[k \in 0..Len(its)] ==
            IF k = 0 THEN << >>
            ELSE IF \/ StartsWith(its[k].asset_full, its[k].ticker_key \o <<" ">>)
                    \/ its[k].asset_full = its[k].ticker_key
                 THEN [a \in (DOMAIN after[k - 1]) \cup {its[k].asset_full} |->
                          IF a = its[k].asset_full THEN its[k].cat ELSE after[k - 1][a]]
                 ELSE after[k - 1]
    IN  after[Len(its)]

\* part_000 372-417: the body of the pair loop on grouped_data
legacy_body(grouped_data, i, j, labels, matrix, cmap) ==
    LET asset_a == labels[i]
        asset_b == labels[j]
        value == matrix[i][j]
        r2 == SquareTimes100(value)
        cat_a == IF asset_a \in DOMAIN cmap THEN cmap[asset_a] ELSE "Others"
        cat_b == IF asset_b \in DOMAIN cmap THEN cmap[asset_b] ELSE "Others"
        rung == legacy_ladder(value)
        same == cat_a = cat_b /\ cat_a # "Others"
        target_cat == IF same THEN cat_a ELSE "Inter-Market (Mixed)"
        incluir == same \/ (rung.tag # "weak" /\ rung.tag # "null")
        item_data == [pair |-> asset_a \o <<" ", "v", "s", " ">> \o asset_b,
                      val |-> value, r2 |-> r2, tipo |-> rung.label, tag |-> rung.tag]
    IN  IF incluir THEN [grouped_data EXCEPT ![target_cat] = Append(@, item_data)]
        ELSE grouped_data

\* part_000 349-417: grouped_data as the display loop finds it
legacy_grouped_data(categorias_raw, labels, matrix) ==
    LET cmap == legacy_cat_map(categorias_raw, labels)
        its == PairIterations(1, Len(labels))
        after[k \in 0..Len(its)] ==
            IF k = 0
            THEN [b \in {categorias_raw[c].name : c \in 1..Len(categorias_raw)}
                           \cup {"Inter-Market (Mixed)"} |-> << >>]
            ELSE legacy_body(after[k - 1], its[k][1], its[k][2], labels, matrix, cmap)
    IN  after[Len(its)]

\* ------------------------------------------------------------------------
\* Specification of the refactored pipeline on the inputs the legacy
\* program is compared on: matrices whose cells lie on and next to the six
\* thresholds, taxonomies with and without a shared prefix.
\* ------------------------------------------------------------------------

\* Label lists of the comparison hold at most MaxLegacyAssets labels
MaxLegacyAssets == 2

LegacyLists == {l \in AssetLists : Len(l) <= MaxLegacyAssets}

\* Every threshold, the values next to it on either side, values beyond
\* -1 and 1, and not-a-number
LegacyValues ==
    {Near(t, d) : t \in {TWINS_THRESHOLD, MODERATE_POS_THRESHOLD, INDEPENDENT_HIGH,
                         INDEPENDENT_LOW, WEAK_NEG_THRESHOLD, MIRROR_THRESHOLD},
                  d \in {0 - 1, 0, 1}}
    \cup {NaN, Float(3500), Float(10500), Float(-10500)}

\* Symmetric matrices with 1.0 on the diagonal, u where row + column is odd
\* and w elsewhere
LegacyMatrices(n) ==
    {[i \in 1..n |-> [j \in 1..n |->
          IF i = j THEN Float(10000) ELSE IF (i + j) % 2 = 1 THEN u ELSE w]] :
       u \in LegacyValues, w \in {Float(8500), NaN}}

InitLegacy ==
    /\ pc = "start"
    /\ cat_map = EmptyDict
    /\ grouped = EmptyDict
    /\ Idle
    /\ raised = ""
    /\ val = NaN
    /\ cls_out = NoResult
    /\ sectors \in Taxonomies
    /\ assets \in LegacyLists
    /\ corr_matrix \in LegacyMatrices(Len(assets))

NextLegacy == BuildCategoryMap \/ GroupCorrelations

SpecLegacy == InitLegacy /\ [][NextLegacy]_vars

\* ------------------------------------------------------------------------
\* Specification of build_category_map over the configured assets
\* (test_gui.py 100-106), the taxonomy iterated in more than one order.
\* ------------------------------------------------------------------------

\* s with the members at positions i and j exchanged
Swap(s, i, j) ==
    [k \in 1..Len(s) |-> IF k = i THEN s[j] ELSE IF k = j THEN s[i] ELSE s[k]]

\* the taxonomy with the prefixes of every sector in reverse order
ReverseTickers(taxonomy) ==
    [c \in 1..Len(taxonomy) |->
        [name |-> taxonomy[c].name, tickers |-> Reverse(taxonomy[c].tickers)]]

\* Iteration orders of the configured taxonomy: dict order, every order with
\* two sectors exchanged, each of these backwards, each with the prefixes
\* of the sectors backwards
IterationOrders ==
    UNION {{Swap(SECTORS, i, j), Reverse(Swap(SECTORS, i, j)),
            ReverseTickers(Swap(SECTORS, i, j)),
            ReverseTickers(Reverse(Swap(SECTORS, i, j)))} :
              i \in 1..Len(SECTORS), j \in 1..Len(SECTORS)}

InitConfigured ==
    /\ pc = "start"
    /\ assets = ASSETS
    /\ cat_map = EmptyDict
    /\ val = NaN
    /\ cls_out = NoResult
    /\ corr_matrix = << >>
    /\ grouped = EmptyDict
    /\ Idle
    /\ raised = ""
    /\ sectors \in IterationOrders

NextConfigured == BuildCategoryMap

SpecConfigured == InitConfigured /\ [][NextConfigured]_vars

\* ------------------------------------------------------------------------
\* Properties of classify_correlation
\* ------------------------------------------------------------------------

Tags == {"pos_strong", "pos_mod", "null", "neg_weak", "neg_mod", "neg_strong", "weak"}

\* x >= t, x < t, x <= t, x > t for a number x and a grid point t
AtLeast(x, t) == x.v > t \/ (x.v = t /\ x.e >= 0)

Under(x, t) == x.v < t \/ (x.v = t /\ x.e < 0)

AtMost(x, t) == x.v < t \/ (x.v = t /\ x.e <= 0)

Over(x, t) == x.v > t \/ (x.v = t /\ x.e > 0)

\* The threshold table of the specification, row by row, each row with both
\* of its ends as the table states them.
TableRow(x) ==
    IF AtLeast(x, 8000) THEN Result("Twins (High Risk)", "pos_strong")
    ELSE IF AtLeast(x, 5000) /\ Under(x, 8000) THEN Result("Moderate Positive", "pos_mod")
    ELSE IF AtLeast(x, -2000) /\ AtMost(x, 2000) THEN Result("Independent (Diversify)", "null")
    ELSE IF Over(x, -5000) /\ Under(x, -2000) THEN Result("Weak Inverse", "neg_weak")
    ELSE IF Over(x, -8000) /\ AtMost(x, -5000) THEN Result("Moderate Inverse", "neg_mod")
    ELSE IF AtMost(x, -8000) THEN Result("Mirror (Hedging)", "neg_strong")
    ELSE Result("Weak Positive / Noise", "weak")

InUnitRange(x) == ~x.nan /\ AtLeast(x, -10000) /\ AtMost(x, 10000)

\* C1: for every correlation value the call returns the (label, tag) of the
\* first matching row of the threshold table; at the six thresholds 0.80 is
\* pos_strong, 0.50 is pos_mod, 0.20 and -0.20 are null, -0.50 is neg_mod
\* and -0.80 is neg_strong.
C1_LadderMatchesTable ==
    (pc = "done" /\ ~val.nan) =>
        /\ cls_out = TableRow(val)
        /\ (val = Float(8000) => cls_out.tag = "pos_strong")
        /\ (val = Float(5000) => cls_out.tag = "pos_mod")
        /\ (val \in {Float(2000), Float(-2000)} => cls_out.tag = "null")
        /\ (val = Float(-5000) => cls_out.tag = "neg_mod")
        /\ (val = Float(-8000) => cls_out.tag = "neg_strong")

C1_Witness == pc = "done" /\ val = Float(8000) /\ cls_out.tag = "pos_strong"

\* C2: on [-1, 1] the call returns exactly one tag, a member of the closed
\* set of seven tags (the call has no raising path: every rung is a float
\* comparison).
C2_TagInClosedSet ==
    (pc = "done" /\ InUnitRange(val)) =>
        /\ cls_out.tag \in Tags
        /\ cls_out # NoResult

C2_Witness == pc = "done" /\ val = Float(3500) /\ cls_out.tag = "weak"

\* The tag of the values immediately below and immediately above grid point x
TagBelow(x) == classify_correlation(Near(x.v, -1)).tag

TagAbove(x) == classify_correlation(Near(x.v, 1)).tag

\* The tag changes at grid point x: it is not the same just below, at and
\* just above x.  (Between two grid points the tag is constant.)
ChangePoint(x) ==
    x.e = 0 /\ Cardinality({TagBelow(x), classify_correlation(x).tag, TagAbove(x)}) > 1

\* C3 as stated: at every point of [-1, 1] where the tag changes, the tag at
\* the point equals the tag of the values immediately below it.
C3_LeftContinuousEverywhere ==
    (pc = "done" /\ InUnitRange(val) /\ ChangePoint(val)) =>
        cls_out.tag = TagBelow(val)

\* C3 amended: the tag changes only at the six thresholds; at 0.20, -0.50
\* and -0.80 the tag at the point equals the tag immediately below it
\* (left-continuous), and at 0.80, 0.50 and -0.20 it equals the tag
\* immediately above it and differs from the one below (right-continuous).
C3_OneSidedContinuity ==
    (pc = "done" /\ InUnitRange(val) /\ ChangePoint(val)) =>
        /\ val.v \in {TWINS_THRESHOLD, MODERATE_POS_THRESHOLD, INDEPENDENT_HIGH,
                      INDEPENDENT_LOW, WEAK_NEG_THRESHOLD, MIRROR_THRESHOLD}
        /\ (val.v \in {INDEPENDENT_HIGH, WEAK_NEG_THRESHOLD, MIRROR_THRESHOLD} =>
                cls_out.tag = TagBelow(val) /\ cls_out.tag # TagAbove(val))
        /\ (val.v \in {TWINS_THRESHOLD, MODERATE_POS_THRESHOLD, INDEPENDENT_LOW} =>
                cls_out.tag = TagAbove(val) /\ cls_out.tag # TagBelow(val))

C3_Witness ==
    /\ pc = "done"
    /\ val = Float(INDEPENDENT_HIGH)
    /\ ChangePoint(val)
    /\ cls_out.tag = "null"
    /\ TagBelow(val) = "null"
    /\ TagAbove(val) = "weak"

\* C4: outside [-1, 1] the call returns the nearest boundary bucket: every
\* value above 1 is pos_strong and every value below -1 is neg_strong.
C4_OutOfRangeNearestBucket ==
    (pc = "done" /\ ~val.nan) =>
        /\ (Over(val, 10000) => cls_out = Result("Twins (High Risk)", "pos_strong"))
        /\ (Under(val, -10000) => cls_out = Result("Mirror (Hedging)", "neg_strong"))

C4_Witness ==
    pc = "done" /\ ~val.nan /\ Under(val, -10000) /\ cls_out.tag = "neg_strong"

\* C6: a not-a-number argument fails every comparison and gets the final
\* return, ("Weak Positive / Noise", weak).
C6_NaNFallsThroughToWeak ==
    (pc = "done" /\ val.nan) => cls_out = Result("Weak Positive / Noise", "weak")

C6_Witness == pc = "done" /\ val.nan /\ cls_out.tag = "weak"

\* ------------------------------------------------------------------------
\* Properties of build_category_map
\* ------------------------------------------------------------------------

\* The label is the prefix, or the prefix followed by one space and anything
PrefixOf(label, p) ==
    \/ label = p
    \/ /\ Len(label) > Len(p)
       /\ SubSeq(label, 1, Len(p)) = p
       /\ label[Len(p) + 1] = " "

\* The positions of the taxonomy's sectors one of whose prefixes the label matches
MatchingSectors(label, taxonomy) ==
    {c \in 1..Len(taxonomy) :
        \E t \in 1..Len(taxonomy[c].tickers) : PrefixOf(label, taxonomy[c].tickers[t])}

\* C7: the map holds a label exactly when the label equals a prefix of the
\* taxonomy or starts with one followed by a space; its value is a sector
\* owning such a prefix; its keys are labels of the list.  Under the
\* configured taxonomy "ES (S&P 500)" is Stock Indices, "BTC" is Crypto,
\* "GC (Gold)" is Metals, "Unknown Asset" is absent, and the empty list gives
\* the empty map.
C7_MapHoldsExactlyMatchedLabels ==
    pc = "mapped" =>
        /\ DOMAIN cat_map \subseteq Range(assets)
        /\ \A label \in Range(assets) :
              /\ label \in DOMAIN cat_map <=> MatchingSectors(label, sectors) # {}
              /\ label \in DOMAIN cat_map =>
                    \E c \in MatchingSectors(label, sectors) : cat_map[label] = sectors[c].name
        /\ assets = << >> => cat_map = EmptyDict
        /\ sectors = SECTORS =>
              /\ LabelES \in Range(assets) => cat_map[LabelES] = "Stock Indices"
              /\ LabelBTC \in Range(assets) => cat_map[LabelBTC] = "Crypto"
              /\ LabelGC \in Range(assets) => cat_map[LabelGC] = "Metals"
              /\ LabelUnknown \notin DOMAIN cat_map

C7_Witness ==
    /\ pc = "mapped"
    /\ sectors = SECTORS
    /\ assets = <<LabelES, LabelBTC, LabelGC, LabelUnknown>>
    /\ DOMAIN cat_map = {LabelES, LabelBTC, LabelGC}
    /\ cat_map[LabelES] = "Stock Indices"
    /\ cat_map[LabelBTC] = "Crypto"
    /\ cat_map[LabelGC] = "Metals"

Last(S) == CHOOSE c \in S : \A d \in S : d <= c

\* C8: a label that matches prefixes of more than one sector is mapped to
\* the last of those sectors in taxonomy iteration order.
C8_LastMatchingSectorWins ==
    pc = "mapped" =>
        \A label \in Range(assets) :
            Cardinality(MatchingSectors(label, sectors)) > 1 =>
                /\ label \in DOMAIN cat_map
                /\ cat_map[label] = sectors[Last(MatchingSectors(label, sectors))].name

C8_Witness ==
    /\ pc = "mapped"
    /\ sectors = TaxonomySharedPrefix
    /\ LabelES \in Range(assets)
    /\ MatchingSectors(LabelES, sectors) = {1, 3}
    /\ cat_map[LabelES] = "Futures"

\* ------------------------------------------------------------------------
\* Properties of group_correlations
\* ------------------------------------------------------------------------

\* Where the items of the returned buckets are: (bucket, position)
ItemPlaces == UNION {{<<b, k>> : k \in DOMAIN grouped[b]} : b \in DOMAIN grouped}

\* The places, in the given buckets, of the items labelled as the pair (a, b)
PlacesOf(a, b, buckets) ==
    LET pair == PairLabel(a, b)
    IN  UNION {{<<bk, k>> : k \in {m \in DOMAIN grouped[bk] : grouped[bk][m].pair = pair}} :
                  bk \in buckets \cap DOMAIN grouped}

\* C5 as stated: a pair whose correlation is not-a-number is in no bucket,
\* whether its assets share a sector or not, and the call does not raise.
C5_NaNPairInNoBucket ==
    pc = "grouped" =>
        /\ raised = ""
        /\ \A c \in UpperCells(Len(assets)) :
              corr_matrix[c[1]][c[2]].nan =>
                  PlacesOf(assets[c[1]], assets[c[2]], DOMAIN grouped) = {}

\* C9: every returned item is labelled "label[i] vs label[j]" for positions
\* i < j, never for i >= j; a pair i < j has at most one item in all buckets
\* together, and exactly one when its tag by the table is neither weak nor
\* null.
C9_EachPairOnceLowerFirst ==
    (pc = "grouped" /\ raised = "") =>
        LET n == Len(assets)
            lower_first == {PairLabel(assets[c[1]], assets[c[2]]) : c \in UpperCells(n)}
            others == UNION {{PairLabel(assets[i], assets[j]) : j \in 1..i} : i \in 1..n}
        IN  /\ \A pl \in ItemPlaces :
                  /\ grouped[pl[1]][pl[2]].pair \in lower_first
                  /\ grouped[pl[1]][pl[2]].pair \notin others
            /\ \A c \in UpperCells(n) :
                  LET pair == PairLabel(assets[c[1]], assets[c[2]])
                      items == Cardinality({pl \in ItemPlaces : grouped[pl[1]][pl[2]].pair = pair})
                      x == corr_matrix[c[1]][c[2]]
                  IN  /\ items <= 1
                      /\ (~x.nan /\ TableRow(x).tag \notin {"weak", "null"}) => items = 1

C9_Witness ==
    /\ pc = "grouped"
    /\ raised = ""
    /\ assets = <<LabelES, LabelGC, LabelNQ>>
    /\ Len(grouped["Stock Indices"]) = 1
    /\ grouped["Stock Indices"][1].pair = PairLabel(LabelES, LabelNQ)
    /\ Len(grouped[InterMarket]) = 2
    /\ grouped[InterMarket][1].pair = PairLabel(LabelES, LabelGC)
    /\ grouped[InterMarket][2].pair = PairLabel(LabelGC, LabelNQ)

\* C10: a pair whose two assets are mapped to the same sector has its item
\* in that sector's bucket whatever its tag, and in no other bucket.
C10_SameSectorAlwaysIncluded ==
    (pc = "grouped" /\ raised = "") =>
        \A c \in UpperCells(Len(assets)) :
            LET a == assets[c[1]]
                b == assets[c[2]]
            IN  (a \in DOMAIN cat_map /\ b \in DOMAIN cat_map
                    /\ cat_map[a] = cat_map[b] /\ cat_map[a] # "Others") =>
                    /\ Cardinality(PlacesOf(a, b, {cat_map[a]})) = 1
                    /\ PlacesOf(a, b, DOMAIN grouped \ {cat_map[a]}) = {}

C10_Witness ==
    /\ pc = "grouped"
    /\ raised = ""
    /\ assets = <<LabelES, LabelGC, LabelNQ>>
    /\ cat_map[LabelES] = "Stock Indices"
    /\ cat_map[LabelNQ] = "Stock Indices"
    /\ corr_matrix[1][3] = Float(1000)
    /\ Len(grouped["Stock Indices"]) = 1
    /\ grouped["Stock Indices"][1].pair = PairLabel(LabelES, LabelNQ)
    /\ grouped["Stock Indices"][1].tag = "null"
    /\ PlacesOf(LabelES, LabelNQ, {InterMarket}) = {}

\* The tag of a cell: the table's tag of a number, "weak" for not-a-number
TagOf(x) == IF x.nan THEN "weak" ELSE TableRow(x).tag

SectorBuckets == DOMAIN grouped \ {InterMarket}

\* C11: a pair whose two assets are mapped to different sectors has its
\* item in "Inter-Market (Mixed)" exactly when its tag is neither weak nor
\* null (0.10 is left out, 0.85 is put in), and never in a sector bucket.
C11_CrossSectorFilteredByTag ==
    (pc = "grouped" /\ raised = "") =>
        \A c \in UpperCells(Len(assets)) :
            LET a == assets[c[1]]
                b == assets[c[2]]
                x == corr_matrix[c[1]][c[2]]
            IN  (a \in DOMAIN cat_map /\ b \in DOMAIN cat_map /\ cat_map[a] # cat_map[b]) =>
                    /\ PlacesOf(a, b, SectorBuckets) = {}
                    /\ PlacesOf(a, b, {InterMarket}) # {} <=> TagOf(x) \notin {"weak", "null"}
                    /\ x = Float(1000) => PlacesOf(a, b, {InterMarket}) = {}
                    /\ x = Float(8500) => PlacesOf(a, b, {InterMarket}) # {}

C11_Witness ==
    /\ pc = "grouped"
    /\ raised = ""
    /\ assets = <<LabelES, LabelGC, LabelNQ>>
    /\ cat_map[LabelES] = "Stock Indices"
    /\ cat_map[LabelGC] = "Metals"
    /\ corr_matrix[1][2] = Float(1000)
    /\ corr_matrix[2][3] = Float(8500)
    /\ PlacesOf(LabelES, LabelGC, DOMAIN grouped) = {}
    /\ PlacesOf(LabelGC, LabelNQ, {InterMarket}) # {}

\* C12: an asset absent from the category map counts as sector "Others",
\* which is never a shared sector: a pair with at least one unmapped asset,
\* two unmapped assets included, is in no sector bucket and is in
\* "Inter-Market (Mixed)" exactly when its tag is neither weak nor null; the
\* call returns, and no bucket is named "Others".
C12_UnmappedIsCrossSector ==
    pc = "grouped" =>
        /\ raised = ""
        /\ "Others" \notin DOMAIN grouped
        /\ \A c \in UpperCells(Len(assets)) :
              LET a == assets[c[1]]
                  b == assets[c[2]]
                  x == corr_matrix[c[1]][c[2]]
              IN  (a \notin DOMAIN cat_map \/ b \notin DOMAIN cat_map) =>
                      /\ PlacesOf(a, b, SectorBuckets) = {}
                      /\ PlacesOf(a, b, {InterMarket}) # {} <=> TagOf(x) \notin {"weak", "null"}

C12_Witness ==
    /\ pc = "grouped"
    /\ raised = ""
    /\ assets = <<LabelES, LabelUnknown, LabelESG>>
    /\ DOMAIN cat_map = {LabelES}
    /\ corr_matrix[1][2] = Float(-6500)
    /\ corr_matrix[1][3] = Float(1000)
    /\ corr_matrix[2][3] = Float(8500)
    /\ Len(grouped[InterMarket]) = 2
    /\ grouped[InterMarket][1].pair = PairLabel(LabelES, LabelUnknown)
    /\ grouped[InterMarket][2].pair = PairLabel(LabelUnknown, LabelESG)
    /\ \A b \in SectorBuckets : grouped[b] = << >>

\* The sector names of the taxonomy of config.py
SectorNames ==
    {"Stock Indices", "Energies", "Metals", "Crypto", "Currencies",
     "Bonds/Fixed Income", "Agriculture (Grains)", "Livestock (Meats)"}

\* C13: the keys of the returned mapping are exactly the sector names of the
\* taxonomy and "Inter-Market (Mixed)", for every argument the call returns
\* on, the empty label list included; a sector that no pair of the list
\* shares has the empty list.
C13_KeysAreSectorsPlusMixed ==
    (pc = "grouped" /\ raised = "") =>
        /\ DOMAIN grouped = SectorNames \cup {InterMarket}
        /\ \A b \in SectorNames :
              (\A c \in UpperCells(Len(assets)) :
                    ~(DictGet(cat_map, assets[c[1]], "Others") = b
                        /\ DictGet(cat_map, assets[c[2]], "Others") = b))
                  => grouped[b] = << >>
        /\ assets = << >> => \A b \in DOMAIN grouped : grouped[b] = << >>

C13_Witness ==
    /\ pc = "grouped"
    /\ raised = ""
    /\ assets = << >>
    /\ Cardinality(DOMAIN grouped) = 9
    /\ InterMarket \in DOMAIN grouped
    /\ \A b \in DOMAIN grouped : grouped[b] = << >>

\* The matrix has r rows of c cells each
HasShape(matrix, r, c) ==
    Len(matrix) = r /\ \A i \in 1..r : Len(matrix[i]) = c

C15_ShapeMismatchRaises ==
    (pc = "grouped" /\ ~HasShape(corr_matrix, Len(assets), Len(assets))) => raised # ""

\* value squared times 100, in millionths of a percent, of a grid value
SquaredPercent(x) == IF x.nan THEN NaN ELSE Float(x.v * x.v)

\* C17: every item of every returned bucket has the five fields pair label,
\* value, similarity, interpretation label and tag; for the pair (i, j) it
\* is labelled for, the value is the matrix cell of row i and column j, the
\* similarity is the value squared times 100, and label and tag are those
\* classify_correlation gives for the value.
C17_ItemFieldsFromCell ==
    (pc = "grouped" /\ raised = "") =>
        LET upper == UpperCells(Len(assets))
            pair == [c \in upper |-> PairLabel(assets[c[1]], assets[c[2]])]
        IN  \A pl \in ItemPlaces :
                LET item == grouped[pl[1]][pl[2]]
                IN  /\ DOMAIN item = {"pair", "val", "r2", "tipo", "tag"}
                    /\ \E c \in upper : item.pair = pair[c]
                    /\ \A c \in upper :
                          item.pair = pair[c] =>
                              /\ item.val = corr_matrix[c[1]][c[2]]
                              /\ item.r2 = SquaredPercent(corr_matrix[c[1]][c[2]])
                              /\ item.tipo = classify_correlation(corr_matrix[c[1]][c[2]]).label
                              /\ item.tag = classify_correlation(corr_matrix[c[1]][c[2]]).tag

C17_Witness ==
    /\ pc = "grouped"
    /\ raised = ""
    /\ assets = <<LabelNQ, LabelGC, LabelES>>
    /\ corr_matrix[1][2] = Float(-6500)
    /\ corr_matrix[1][3] = Float(8500)
    /\ grouped[InterMarket][1] =
          [pair |-> PairLabel(LabelNQ, LabelGC), val |-> Float(-6500), r2 |-> Float(42250000),
           tipo |-> "Moderate Inverse", tag |-> "neg_mod"]
    /\ grouped["Stock Indices"][1] =
          [pair |-> PairLabel(LabelNQ, LabelES), val |-> Float(8500), r2 |-> Float(72250000),
           tipo |-> "Twins (High Risk)", tag |-> "pos_strong"]

\* C18 as stated: a pair whose assets do not share a sector is left out of
\* the list exactly when its correlation lies between 0.2 and 0.5, as the
\* legend says, and every other such pair is listed.
C18_LegendFilterIsApplied ==
    (pc = "grouped" /\ raised = "") =>
        \A c \in UpperCells(Len(assets)) :
            LET a == assets[c[1]]
                b == assets[c[2]]
                cat_a == DictGet(cat_map, a, "Others")
                cat_b == DictGet(cat_map, b, "Others")
            IN  ~(cat_a = cat_b /\ cat_a # "Others") =>
                    (PlacesOf(a, b, DOMAIN grouped) = {}
                        <=> LegendFilteredOut(corr_matrix[c[1]][c[2]]))

\* ------------------------------------------------------------------------
\* Properties of the Strong Correlations tree
\* ------------------------------------------------------------------------

\* The positions (i, j), i < j, of the pair a row is labelled for
CellOf(row) ==
    CHOOSE c \in UpperCells(Len(assets)) : row.pair = PairLabel(assets[c[1]], assets[c[2]])

Magnitude(x) == IF x.v < 0 THEN 0 - x.v ELSE x.v

\* Row r1 may stand before row r2: the first asset of r1 is the lower label,
\* or it is the same label and, both correlations being numbers, that of r1
\* is not the smaller one in absolute value.
InDisplayOrder(r1, r2) ==
    LET c1 == CellOf(r1)
        c2 == CellOf(r2)
        x1 == corr_matrix[c1[1]][c1[2]]
        x2 == corr_matrix[c2[1]][c2[2]]
    IN  \/ StrLt(assets[c1[1]], assets[c2[1]])
        \/ /\ assets[c1[1]] = assets[c2[1]]
           /\ (~x1.nan /\ ~x2.nan) => Magnitude(x1) >= Magnitude(x2)

\* The rows of the section are the items of the bucket, each once
PermutationOf(rows, items) ==
    /\ Len(rows) = Len(items)
    /\ {rows[k].pair : k \in DOMAIN rows} = {items[k].pair : k \in DOMAIN items}
    /\ Cardinality({rows[k].pair : k \in DOMAIN rows}) = Len(rows)

\* C16 as stated: in every displayed bucket the rows are ordered by first
\* asset label ascending and, for one first asset, by absolute correlation
\* descending (rows of not-a-number correlation may stand anywhere among
\* those of their first asset); the rows are a permutation of the bucket
\* group_correlations returned.
C16_RowsSortedPermutation ==
    pc = "shown" =>
        LET produced == group_correlations(assets, corr_matrix, cat_map, sectors).buckets
        IN  /\ {tree[t].sector : t \in DOMAIN tree} = {b \in DOMAIN produced : produced[b] # << >>}
            /\ \A t \in DOMAIN tree :
                  /\ PermutationOf(tree[t].rows, produced[tree[t].sector])
                  /\ \A k, m \in DOMAIN tree[t].rows :
                        k < m => InDisplayOrder(tree[t].rows[k], tree[t].rows[m])

\* ------------------------------------------------------------------------
\* Properties of compute_correlation_matrices
\* ------------------------------------------------------------------------

\* The returns of column c over `periods` rows are not all the same: for two
\* rows t, q past the window, p[t] / p[t - periods] # p[q] / p[q - periods]
ReturnsVary(c, periods) ==
    \E t, q \in (periods + 1)..data.nrows :
        data.series[c][t] * data.series[c][q - periods]
            # data.series[c][q] * data.series[c][t - periods]

\* The matrix is square of the table's size, carries the table's labels in
\* order on rows and columns, has equal cells (both not-a-number, or the
\* same number) at (a, b) and (b, a), and has 1.0 at (a, a) for every column
\* a whose returns over the window vary.
WellFormed(matrix, periods) ==
    LET n == Len(data.columns)
    IN  /\ matrix.index = data.columns
        /\ matrix.columns = data.columns
        /\ Len(matrix.cells) = n
        /\ \A a \in 1..n : Len(matrix.cells[a]) = n
        /\ \A a, b \in 1..n : matrix.cells[a][b] = matrix.cells[b][a]
        /\ \A a \in 1..n : ReturnsVary(a, periods) => matrix.cells[a][a] = CorrOne

\* C19: both returned matrices are square, carry the price table's labels
\* in the same order on rows and columns, are symmetric, and have 1.0 on the
\* diagonal for every instrument whose return series has nonzero variance.
C19_MatricesSquareSymmetricUnitDiagonal ==
    pc = "computed" =>
        /\ WellFormed(corr_short, SHORT_TERM_DAYS)
        /\ WellFormed(corr_medium, MEDIUM_TERM_DAYS)

C19_Witness ==
    /\ pc = "computed"
    /\ data.columns = <<LabelES, LabelGC>>
    /\ data.nrows = MaxRows
    /\ ReturnsVary(1, MEDIUM_TERM_DAYS)
    /\ ReturnsVary(2, MEDIUM_TERM_DAYS)
    /\ corr_short.cells[1][1] = CorrOne
    /\ corr_medium.cells[2][2] = CorrOne
    /\ ~corr_short.cells[1][2].nan
    /\ corr_short.cells[1][2].num < corr_short.cells[1][2].den
    /\ corr_short.cells[2][1] = corr_short.cells[1][2]
    /\ ~corr_medium.cells[1][2].nan
    /\ corr_medium.cells[1][2].sign = 0 - 1
    /\ corr_medium.cells[2][1] = corr_medium.cells[1][2]

\* The price table is malformed or empty: no row, no column, or a label on
\* two columns
Malformed(table) ==
    \/ table.nrows = 0
    \/ table.columns = << >>
    \/ \E a, b \in 1..Len(table.columns) : a # b /\ table.columns[a] = table.columns[b]

\* C20 as stated: on a malformed or empty price table the call ends with an
\* error and returns no matrices.
C20_MalformedTableFails ==
    (pc = "computed" /\ Malformed(data)) => raised # ""

\* ------------------------------------------------------------------------
\* Properties of main
\* ------------------------------------------------------------------------

\* the download raised or gave an empty table
DownloadFailed == downloaded = DownloadError \/ (downloaded # None /\ Empty(downloaded))

\* C25: run_app is called only with two matrices computed from the table
\* downloaded; after a download that raised or gave empty data,
\* download_market_data has returned None and nothing was raised,
\* fetch_correlations returns (None, None) with no matrix computed, main
\* calls sys.exit(1) and run_app is never called; fetch_correlations never
\* returns one matrix and one None.
C25_GuiOnlyAfterBothMatrices ==
    /\ run_app_calls # << >> =>
          /\ pc = "gui"
          /\ run_app_calls = << <<corr_short, corr_medium>> >>
          /\ corr_short # None /\ corr_medium # None
          /\ data # None /\ data = downloaded
          /\ corr_short = compute_correlation_matrices(data).corr_short
          /\ corr_medium = compute_correlation_matrices(data).corr_medium
          /\ exits = << >>
    /\ (DownloadFailed /\ pc # "main") =>
          /\ data = None
          /\ raised = ""
          /\ pc \in {"fetched", "returned", "exited"}
          /\ pc = "fetched" => corr_short = NoMatrix /\ corr_medium = NoMatrix
          /\ pc \in {"returned", "exited"} => corr_short = None /\ corr_medium = None
          /\ pc = "exited" => exits = <<1>>
          /\ run_app_calls = << >>
    /\ pc \in {"returned", "computed"} => (corr_short = None <=> corr_medium = None)
    /\ pc = "gui" => run_app_calls # << >>

C25_Witness ==
    /\ pc = "exited"
    /\ downloaded # DownloadError
    /\ downloaded.nrows > 0
    /\ DownloadFailed
    /\ exits = <<1>>
    /\ run_app_calls = << >>

\* ------------------------------------------------------------------------
\* Properties of the heatmap views
\* ------------------------------------------------------------------------

\* C26: in each of the three views, after any sequence of combobox
\* selections and clicks, at most one highlight rectangle is attached to the
\* axes; when there is one it is the rectangle the view remembers and it
\* lies at (column index of the selected Asset B, row index of the selected
\* Asset A); no rectangle drawn earlier is left on the axes.
C26_OneHighlightAtSelection ==
    pc = "mainloop" =>
        \A key \in ViewKeys :
            LET view == views[key]
            IN  /\ Len(view.patches) <= 1
                /\ view.highlight_rect = None => view.patches = << >>
                /\ view.highlight_rect # None =>
                      /\ view.patches = <<view.highlight_rect>>
                      /\ view.combo1 # << >> /\ view.combo2 # << >>
                      /\ \E r \in 1..Len(assets), c \in 1..Len(assets) :
                            /\ assets[r] = view.combo1
                            /\ assets[c] = view.combo2
                            /\ view.highlight_rect.xy = <<c - 1, r - 1>>

C26_Witness ==
    /\ pc = "mainloop"
    /\ assets = <<LabelES, LabelGC>>
    /\ views["medium"].combo1 = LabelGC
    /\ views["medium"].combo2 = LabelES
    /\ views["medium"].patches = <<Rectangle(0, 1)>>
    /\ views["short"].patches = <<Rectangle(1, 1)>>
    /\ views["diff"].patches = << >>
    /\ views["diff"].combo1 = LabelES

\* the click lies in the view's axes, has data coordinates, and these fall
\* in the cell of row `row` and column `col` (0-based)
InCell(key, event, row, col) ==
    /\ event.inaxes = key
    /\ event.located
    /\ 2 * col <= event.xdata /\ event.xdata < 2 * col + 2
    /\ 2 * row <= event.ydata /\ event.ydata < 2 * row + 2

\* a coordinate, in halves, whose integer part is outside [0, number of assets)
OutOfRange(halves) == halves <= 0 - 2 \/ halves >= 2 * Len(assets)

\* C27: in every state the window reaches and for each view, a click outside
\* the view's axes, a click without data coordinates and a click whose
\* truncated row or column index is outside [0, number of assets) leave the
\* comboboxes, the result label and the highlight as they are; an update
\* with a combobox still empty leaves the label and the highlight as they
\* are; a click inside cell (row, col) sets Asset A to assets[row] and
\* Asset B to assets[col] and then updates the view.
C27_IncompleteEventsChangeNothing ==
    pc = "mainloop" =>
        \A key \in ViewKeys :
            LET view == views[key]
            IN  /\ \A event \in ClickEvents(key) :
                      LET after == on_click(key, view, event)
                      IN  /\ (\/ event.inaxes # key
                              \/ ~event.located
                              \/ OutOfRange(event.xdata)
                              \/ OutOfRange(event.ydata)) => after = view
                          /\ \A row \in 0..(Len(assets) - 1), col \in 0..(Len(assets) - 1) :
                                InCell(key, event, row, col) =>
                                    /\ after.combo1 = assets[row + 1]
                                    /\ after.combo2 = assets[col + 1]
                                    /\ after.highlight_rect = Rectangle(col, row)
                                    /\ after.patches = <<Rectangle(col, row)>>
                                    /\ after.result_label # Prompt
                                    /\ after = UpdateView(key, [view EXCEPT
                                                    !.combo1 = assets[row + 1],
                                                    !.combo2 = assets[col + 1]])
                /\ \A picked \in {[view EXCEPT !.combo1 = l] : l \in Range(assets) \cup {<< >>}}
                              \cup {[view EXCEPT !.combo2 = l] : l \in Range(assets) \cup {<< >>}} :
                      (picked.combo1 = << >> \/ picked.combo2 = << >>) =>
                          /\ UpdateView(key, picked).result_label = view.result_label
                          /\ UpdateView(key, picked).highlight_rect = view.highlight_rect
                          /\ UpdateView(key, picked).patches = view.patches

C27_Witness ==
    /\ pc = "mainloop"
    /\ assets = <<LabelGC, LabelBTC>>
    /\ views["diff"].combo1 = LabelBTC
    /\ views["diff"].combo2 = LabelGC
    /\ views["diff"].highlight_rect = Rectangle(0, 1)
    /\ on_click("diff", views["diff"], Event("diff", TRUE, 1, 4)) = views["diff"]
    /\ on_click("diff", views["diff"], Event("diff", TRUE, 3, 1)).combo1 = LabelGC
    /\ views["short"].combo1 = LabelGC
    /\ views["short"].combo2 = << >>
    /\ views["short"].result_label = Prompt

\* |x| > t and |x| <= t for a number x and a grid point t >= 0
AbsOver(x, t) == ~x.nan /\ (Over(x, t) \/ Under(x, 0 - t))

AbsAtMost(x, t) == ~x.nan /\ AtMost(x, t) /\ AtLeast(x, 0 - t)

\* d is s minus m
IsDifference(d, s, m) ==
    IF s.nan \/ m.nan THEN d.nan
    ELSE /\ ~d.nan
         /\ d.v = s.v - m.v
         /\ (d.e > 0 <=> s.e > m.e)
         /\ (d.e < 0 <=> s.e < m.e)

\* C28: the difference matrix has the labels of the short-window matrix and
\* each of its cells is the short-window cell minus the medium-window cell;
\* for a selected pair the comparison view shows the percentage of diff
\* over |medium| when |medium| > 0.01, otherwise "(New)" when |diff| > 0.10
\* and "(No change)" when |diff| <= 0.10; the colour is the positive one when
\* diff > 0.10, the negative one when diff < -0.10 and the neutral one when
\* -0.10 <= diff <= 0.10.
C28_ComparisonViewShowsDifference ==
    pc = "mainloop" =>
        /\ diff_matrix.index = corr_short.index
        /\ diff_matrix.columns = corr_short.columns
        /\ \A i \in 1..Len(assets), j \in 1..Len(assets) :
              IsDifference(diff_matrix.cells[i][j], corr_short.cells[i][j],
                           corr_medium.cells[i][j])
        /\ \A i \in 1..Len(assets), j \in 1..Len(assets) :
              (views["diff"].combo1 = assets[i] /\ views["diff"].combo2 = assets[j]) =>
                  LET shown == views["diff"].result_label
                      medium == corr_medium.cells[i][j]
                      diff == diff_matrix.cells[i][j]
                  IN  /\ shown.text.kind = "comparison"
                      /\ shown.text.v_short = corr_short.cells[i][j]
                      /\ shown.text.v_medium = medium
                      /\ shown.text.diff = diff
                      /\ AbsOver(medium, 100) =>
                            /\ shown.text.pct_text.kind = "percent"
                            /\ shown.text.pct_text.num = diff
                            /\ IsDifference(shown.text.pct_text.den,
                                            IF Under(medium, 0) THEN Float(0) ELSE medium,
                                            IF Under(medium, 0) THEN medium ELSE Float(0))
                      /\ (~AbsOver(medium, 100) /\ AbsOver(diff, 1000)) =>
                            shown.text.pct_text.kind = "(New)"
                      /\ (~AbsOver(medium, 100) /\ AbsAtMost(diff, 1000)) =>
                            shown.text.pct_text.kind = "(No change)"
                      /\ (~diff.nan /\ Over(diff, 1000)) => shown.foreground = "#006400"
                      /\ (~diff.nan /\ Under(diff, 0 - 1000)) => shown.foreground = "#8B0000"
                      /\ AbsAtMost(diff, 1000) => shown.foreground = "black"

C28_Witness ==
    /\ pc = "mainloop"
    /\ assets = <<LabelES, LabelGC>>
    /\ views["diff"].combo1 = LabelES
    /\ views["diff"].combo2 = LabelGC
    /\ corr_medium.cells[1][2] = Float(100)
    /\ corr_short.cells[1][2] = Float(1100)
    /\ diff_matrix.cells[1][2] = Float(1000)
    /\ views["diff"].result_label.text.pct_text.kind = "(No change)"
    /\ views["diff"].result_label.foreground = "black"
    /\ views["diff"].highlight_rect = Rectangle(1, 0)

\* The six explicit conditions of the threshold table, with both of their
\* ends, over the configured thresholds: the numbers of those x satisfies
ConditionsMet(x) ==
    IF x.nan THEN {}
    ELSE {k \in 1..6 :
            \/ k = 1 /\ AtLeast(x, TWINS_THRESHOLD)
            \/ k = 2 /\ AtLeast(x, MODERATE_POS_THRESHOLD) /\ Under(x, TWINS_THRESHOLD)
            \/ k = 3 /\ AtLeast(x, INDEPENDENT_LOW) /\ AtMost(x, INDEPENDENT_HIGH)
            \/ k = 4 /\ Over(x, WEAK_NEG_THRESHOLD) /\ Under(x, INDEPENDENT_LOW)
            \/ k = 5 /\ Over(x, MIRROR_THRESHOLD) /\ AtMost(x, WEAK_NEG_THRESHOLD)
            \/ k = 6 /\ AtMost(x, MIRROR_THRESHOLD)}

\* The tags of the six conditions, in table order
ConditionTags == <<"pos_strong", "pos_mod", "null", "neg_weak", "neg_mod", "neg_strong">>

\* C30: every value satisfies at most one of the six explicit conditions of
\* the table; the call returns the tag of the condition the value
\* satisfies, whichever conditions stand before it, and "weak" when it
\* satisfies none; and the call returns pos_mod exactly for the values with
\* 0.50 <= v < 0.80.
C30_ConditionsExclusive ==
    pc = "done" =>
        /\ Cardinality(ConditionsMet(val)) <= 1
        /\ \A k \in 1..6 : k \in ConditionsMet(val) => cls_out.tag = ConditionTags[k]
        /\ ConditionsMet(val) = {} => cls_out.tag = "weak"
        /\ cls_out.tag = "pos_mod" <=>
               (~val.nan /\ AtLeast(val, 5000) /\ Under(val, 8000))

C30_Witness ==
    /\ pc = "done"
    /\ val = Near(TWINS_THRESHOLD, 0 - 1)
    /\ ConditionsMet(val) = {2}
    /\ cls_out.tag = "pos_mod"
    /\ ConditionsMet(Float(TWINS_THRESHOLD)) = {1}

\* ------------------------------------------------------------------------
\* Properties of the refactored core against the legacy program
\* ------------------------------------------------------------------------

C23_ThresholdsOrderedInRange ==
    pc = "done" =>
        /\ MIRROR_THRESHOLD < WEAK_NEG_THRESHOLD
        /\ WEAK_NEG_THRESHOLD < INDEPENDENT_LOW
        /\ INDEPENDENT_LOW < INDEPENDENT_HIGH
        /\ INDEPENDENT_HIGH < MODERATE_POS_THRESHOLD
        /\ MODERATE_POS_THRESHOLD < TWINS_THRESHOLD
        /\ \A t \in {TWINS_THRESHOLD, MODERATE_POS_THRESHOLD, INDEPENDENT_HIGH,
                      INDEPENDENT_LOW, WEAK_NEG_THRESHOLD, MIRROR_THRESHOLD} :
              InUnitRange(Float(t))

\* every threshold has been the argument of a call, each with its own tag
\* on one side of it
C23_Witness ==
    /\ pc = "done"
    /\ val = Float(MIRROR_THRESHOLD)
    /\ InUnitRange(val)
    /\ cls_out.tag = "neg_strong"
    /\ classify_correlation(Near(MIRROR_THRESHOLD, 1)).tag = "neg_mod"
    /\ classify_correlation(Float(WEAK_NEG_THRESHOLD)).tag = "neg_mod"
    /\ classify_correlation(Float(INDEPENDENT_LOW)).tag = "null"
    /\ classify_correlation(Float(INDEPENDENT_HIGH)).tag = "null"
    /\ classify_correlation(Float(MODERATE_POS_THRESHOLD)).tag = "pos_mod"
    /\ classify_correlation(Float(TWINS_THRESHOLD)).tag = "pos_strong"

\* All prefixes of the taxonomy, one per place they are listed at
PrefixPlaces(taxonomy) ==
    UNION {{<<c, t>> : t \in 1..Len(taxonomy[c].tickers)} : c \in 1..Len(taxonomy)}

\* C24: in the configured taxonomy no prefix is listed in two sectors,
\* every prefix matches at least one configured asset label, every
\* configured label matches prefixes of exactly one sector, and
\* build_category_map over the configured assets maps every one of them,
\* to that sector, whatever the order the taxonomy is iterated in.
C24_ConfiguredAssetsMapOnce ==
    /\ \A p \in PrefixPlaces(sectors), q \in PrefixPlaces(sectors) :
          sectors[p[1]].tickers[p[2]] = sectors[q[1]].tickers[q[2]] => p[1] = q[1]
    /\ \A p \in PrefixPlaces(sectors) :
          \E k \in 1..Len(assets) : PrefixOf(assets[k], sectors[p[1]].tickers[p[2]])
    /\ \A k \in 1..Len(assets) : Cardinality(MatchingSectors(assets[k], sectors)) = 1
    /\ pc = "mapped" =>
          /\ DOMAIN cat_map = Range(assets)
          /\ \A k \in 1..Len(assets) :
                \A c \in MatchingSectors(assets[k], sectors) :
                    cat_map[assets[k]] = sectors[c].name
          /\ cat_map = build_category_map(ASSETS, SECTORS)

C24_Witness ==
    /\ pc = "mapped"
    /\ assets = ASSETS
    /\ sectors # SECTORS
    /\ sectors[1].name = "Livestock (Meats)"
    /\ Cardinality(DOMAIN cat_map) = Len(ASSETS)
    /\ cat_map[LabelRTY] = "Stock Indices"
    /\ cat_map[<<"E", "T", "H">>] = "Crypto"

\* ------------------------------------------------------------------------
\* Properties of the repeated run
\* ------------------------------------------------------------------------

AllNaN(matrix) ==
    LET n == Len(data.columns)
    IN  /\ Len(matrix.cells) = n
        /\ \A a \in 1..n :
              /\ Len(matrix.cells[a]) = n
              /\ \A b \in 1..n : matrix.cells[a][b].nan

\* C21: when fewer than 2 rows are left after a window (the table has at
\* most window + 1 rows), the call does not raise and still returns both
\* matrices, n x n for n columns, the matrix of that window holding
\* not-a-number in every cell.
C21_TooFewRowsGiveNaNMatrix ==
    pc = "computed" =>
        /\ raised = ""
        /\ Len(corr_short.cells) = Len(data.columns)
        /\ Len(corr_medium.cells) = Len(data.columns)
        /\ data.nrows <= SHORT_TERM_DAYS + 1 => AllNaN(corr_short)
        /\ data.nrows <= MEDIUM_TERM_DAYS + 1 => AllNaN(corr_medium)

C21_Witness ==
    /\ pc = "computed"
    /\ raised = ""
    /\ data.columns = <<LabelES, LabelGC>>
    /\ data.nrows = MEDIUM_TERM_DAYS + 1
    /\ ~corr_short.cells[1][2].nan
    /\ AllNaN(corr_medium)
    /\ corr_medium.index = data.columns

=============================================================================
